---- MODULE Spec2Model ----
(***************************************************************************)
(* Download orchestration of src/main.py (SocialMediaDownloader) and of    *)
(* src/bot.py: the strategy executors, the compression pipeline, the       *)
(* parallel racer download_video and the request handlers around them.     *)
(*                                                                         *)
(* The program is a single asyncio event loop.  A coroutine runs without   *)
(* interruption until it awaits something that really suspends (network    *)
(* I/O, an aiofiles write); subprocess.run and Future.result block the     *)
(* whole loop.  One action below is therefore one run of a task from one   *)
(* suspension point to the next, and a task's pc names the await it is     *)
(* suspended at.  File sizes are in MiB.                                   *)
(***************************************************************************)
EXTENDS Integers, Sequences, FiniteSets, TLC

\* Config.MAX_FILE_SIZE = 50 * 1024 * 1024 (bytes), here in MiB
MAX_FILE_SIZE == 50
\* Config.MAX_VIDEO_SIZE = 2 * 1024 * 1024 * 1024 (bytes), here in MiB
MAX_VIDEO_SIZE == 2048
\* _compress_video_smart: original_size < 100 * 1024 * 1024
SMART_CUTOFF == 100

\* ---------------------------------------------------------------- inputs
\* Sizes (MiB) a download can have: within budget, over budget but under the
\* smart cutoff, over the cutoff, over MAX_VIDEO_SIZE.
DownloadSizes == {40, 80, 150, 3000}
\* Sizes (MiB) an ffmpeg run that exits 0 can produce: within / over budget.
CompressedSizes == {30, 60}
\* Size of the partial output a killed or failed subprocess leaves behind.
PartialSizes == {10}
\* How many chunks response.aiter_bytes yields before the stream ends.
MaxChunks == 2

\* ---------------------------------------------------------------- names
\* The three racing executors of download_video, in task creation order.
RaceKinds == <<"ytdlp", "api", "cookies">>
\* Every executor: the racing ones and the two download_video runs inline.
Kinds == {"ytdlp", "api", "cookies", "m3u8", "direct"}
\* Platforms get_platform can return that the executors tell apart.
Platforms == {"youtube", "tiktok", "instagram", "m3u8", "direct"}

\* compression_levels of _compress_video_aggressive, by index
compression_levels == <<720, 480, 360>>
LevelName(i) == CASE i = 1 -> "720p" [] i = 2 -> "480p" [] OTHER -> "360p"
\* quality_levels of download_with_yt_dlp, by index (2160 stands for 4K)
quality_levels == <<2160, 1440, 1080, 720, 480>>
\* The selector of _download_youtube_fallback, which has no height
Fallback == 0

\* f"{self.temp_dir}/ultra_fast_{int(time.time())}.mp4": one per executor run
UltraPath(k) == "ultra_fast_" \o k \o ".mp4"
\* f"{self.temp_dir}/aggressive_{level['height']}p_{int(time.time())}.mp4"
AggrPath(k, h) ==
    "aggressive_" \o (CASE h = 720 -> "720p" [] h = 480 -> "480p" [] OTHER -> "360p")
                  \o "_" \o k \o ".mp4"
\* '%(title)s.%(ext)s' of the yt-dlp commands: the package and the cookie
\* executor write the same file of the shared temp_dir.
TitlePath == "title.mp4"
TitlePart == "title.mp4.part"
\* f"{self.temp_dir}/video_{int(time.time())}{file_ext}"
VideoPath(k) == "video_" \o k \o ".mp4"
\* f"{self.temp_dir}/stream_{int(time.time())}.mp4"
StreamPath == "stream.mp4"
StreamPart == "stream.mp4.part"
CookiePath == "cookies.txt"
YoutubeCookiePath == "youtube_cookies.txt"
\* output_template = f'{self.temp_dir}/{title}_{platform}.%(ext)s'
QualityPath == "title_platform.mp4"
QualityPart == "title_platform.mp4.part"
\* the same template when yt-dlp takes an audio format: ext is m4a or mp3
QualityM4aPath == "title_platform.m4a"
QualityMp3Path == "title_platform.mp3"
\* _extract_audio_as_mp3: video_path.rsplit('.', 1)[0] + '.mp3'
ExtractedPath == "video.mp3"
\* _generate_enhanced_filename: f"{safe_title}{quality_suffix}..._{platform.upper()}.mp4"
EnhancedPath == "title_HD_PLATFORM.mp4"
\* bot.py: tempfile.NamedTemporaryFile("w+", delete=False), in the system
\* temporary directory
BotCookiePath == "/tmp/tmpcookie"
\* bot.py: "outtmpl":"downloads/%(id)s.%(ext)s"
BotVideoPath == "downloads/id.mp4"
BotVideoPart == "downloads/id.mp4.part"
\* bot.py: filename=f"downloads/{uuid4()}.mp4"
BotUuidPath == "downloads/uuid.mp4"

CompressedNames ==
    {UltraPath(k) : k \in Kinds} \cup {AggrPath(k, h) : k \in Kinds, h \in {720, 480, 360}}
\* file.suffix in ['.mp4', '.mkv', '.webm', '.avi']
MediaNames ==
    {TitlePath, StreamPath, QualityPath, EnhancedPath}
        \cup {VideoPath(k) : k \in Kinds} \cup CompressedNames
\* The files of self.temp_dir
TempDirNames ==
    MediaNames \cup {TitlePart, StreamPart, QualityPart, CookiePath, YoutubeCookiePath,
                     QualityM4aPath, QualityMp3Path, ExtractedPath}
\* The files bot.py writes, none of them in a temp_dir
BotNames == {BotCookiePath, BotVideoPath, BotVideoPart, BotUuidPath}
Names == TempDirNames \cup BotNames

NoFile == [size |-> -1, by |-> "none"]
NoResult == [file |-> "none", meta |-> "none"]

\* ------------------------------------------------------------- the disk
Exists(d, n) == n \in Names /\ d[n].size >= 0
Size(d, n) == d[n].size
Put(d, n, s, k) == [d EXCEPT ![n] = [size |-> s, by |-> k]]
\* yt-dlp keeps a finished output file that is already there
PutIfAbsent(d, n, s, k) == IF Exists(d, n) THEN d ELSE Put(d, n, s, k)
\* os.unlink inside try/except: pass
Unlink(d, n) == IF n \in Names THEN [d EXCEPT ![n] = NoFile] ELSE d
EmptyDisk == [n \in Names |-> NoFile]
FilesOn(d) == {n \in Names : Exists(d, n)}

\* for file in Path(self.temp_dir).glob("*"): if file.suffix in [...] and
\* file.stat().st_size > 0: the first such file in directory order, which is
\* any of them.
GlobMedia(d) == {n \in MediaNames : Exists(d, n) /\ Size(d, n) > 0}

VARIABLES
    entry,      \* which operation this run models: "race", "exec", "quality", "bot"
    platform,   \* get_platform(url)
    hasCookies, \* Config holds cookie values for the platform
    task,       \* per executor: its position and locals
    disk,       \* the files of self.temp_dir (and those bot.py writes)
    racer,      \* download_video: the as_completed loop
    request,    \* the handler serving a request: its position and locals
    clock,      \* time.time(), in units of 0.4 s
    tracker,    \* the ProgressTracker of the request: its fields
    producer,   \* the coroutines reporting to the tracker: position and locals
    emitted,    \* the edits of the progress message that went through, in order
    download_progress, \* download_progress[download_id] of the web interface
    webhook,    \* per request of the Flask server: the position of its thread
    user_states,    \* user_states[chat_id] of the bot
    download_stats, \* download_stats of the bot
    url,        \* the URL string handed to get_platform
    tags        \* what the calls of get_platform returned, in order

\* The variables of the progress reporter
trackerVars == <<clock, tracker, producer, emitted>>
\* The variables of the downloader and of the request handlers
downloadVars == <<entry, platform, hasCookies, task, disk, racer, request>>
\* The record of the web interface
webVars == <<download_progress, webhook, user_states, download_stats>>
\* The session state of the bot
sessionVars == <<user_states, download_stats>>
\* The variables of the classifier
classifierVars == <<url, tags>>
vars == <<entry, platform, hasCookies, task, disk, racer, request,
          clock, tracker, producer, emitted, download_progress, webhook,
          user_states, download_stats, url, tags>>


\* ------------------------------------------------------------ task records
\* An executor that is not part of the run.
OffTask ==
    [pc |-> "off", cancelReq |-> FALSE, cancelRaised |-> FALSE,
     file |-> "none", fsize |-> -1, result |-> NoResult,
     q |-> 0, lvl |-> 0, calls |-> <<>>, chunks |-> 0, total |-> 0, attempts |-> <<>>,
     answer |-> "none", timeouts |-> {}]
\* asyncio.create_task(...): created, not yet run.
NewTask == [OffTask EXCEPT !.pc = "start"]

\* The awaits an executor can be suspended at.
AwaitPcs ==
    {"await_quality", "await_smart", "await_ultra", "await_level", "await_get",
     "await_head", "await_stream", "await_chunk", "await_m3u8"}
Finished(t) == t.pc \in {"done", "cancelled"}

\* return file, metadata / return None, None: the executor's task is done.
Done(t, f, k) ==
    [t EXCEPT !.pc = "done",
              !.result = IF f = "none" THEN NoResult ELSE [file |-> f, meta |-> k]]
Suspend(t, pc) == [t EXCEPT !.pc = pc]
\* No more timeouts than this fire in one run.
MaxTimeouts == 1
\* The timeout of the call named what has fired in the executor, or not.
TimedOut(t, what, fired) == IF fired THEN [t EXCEPT !.timeouts = @ \cup {what}] ELSE t
\* file = the downloaded file the executor goes on with, file_size = its size
Found(t, f, d) == [t EXCEPT !.file = f, !.fsize = d[f].size]
Cfg(t, d) == [t |-> t, d |-> d]

\* Which function called the compression, by executor.
Caller(k) ==
    CASE k = "ytdlp" -> (IF platform = "youtube" THEN "ytq" ELSE "enh")
      [] k = "api" -> "direct"
      [] k = "direct" -> "direct"
      [] k = "cookies" -> "cookies"
      [] OTHER -> "m3u8"

\* Whether a timeout fires in a call that has one.
MayTimeOut ==
    IF Cardinality(UNION {{<<k, w>> : w \in task[k].timeouts} : k \in Kinds}) < MaxTimeouts
    THEN BOOLEAN ELSE {FALSE}

\* -------------------------------------------------- compression pipeline
\* compress_ultra_fast: one ffmpeg run; the path when it exits 0 and the
\* output exists, else None.  A failed or timed-out run may leave its
\* partial output behind.
compress_ultra_fast(k, d) ==
    {[out |-> UltraPath(k), d |-> Put(d, UltraPath(k), s, k)] : s \in CompressedSizes}
    \cup {[out |-> "none", d |-> d]}
    \cup {[out |-> "none", d |-> Put(d, UltraPath(k), p, k)] : p \in PartialSizes}

\* compress_level: exit 0 and size <= MAX_FILE_SIZE: the path; exit 0 and
\* over budget: the output is unlinked, None; failure: None.
compress_level_checked(k, h, d, s) ==
    IF s <= MAX_FILE_SIZE
    THEN [out |-> AggrPath(k, h), d |-> Put(d, AggrPath(k, h), s, k), timeout |-> FALSE]
    ELSE [out |-> "none", d |-> Unlink(Put(d, AggrPath(k, h), s, k), AggrPath(k, h)),
          timeout |-> FALSE]

\* timeout: subprocess.run raised TimeoutExpired (2040, caught at 2056) or
\* future.result raised TimeoutError (2063, caught at 2070); else ffmpeg failed.
compress_level(k, h, d) ==
    {compress_level_checked(k, h, d, s) : s \in CompressedSizes}
    \cup {[out |-> "none", d |-> d, timeout |-> to] : to \in MayTimeOut}
    \cup {[out |-> "none", d |-> Put(d, AggrPath(k, h), p, k), timeout |-> to] :
             p \in PartialSizes, to \in MayTimeOut}

\* What the caller of the compression does with its return value c.
\* _download_with_enhanced_compression (1587-1598)
AfterCompressEnh(k, t, c, d) ==
    IF c # "none" /\ Exists(d, c)
    THEN IF Size(d, c) <= MAX_FILE_SIZE THEN Cfg(Done(t, c, k), d)
         ELSE Cfg(Done(t, "none", k), d)
    ELSE Cfg(Done(t, "none", k), d)

\* _download_youtube_quality (1450-1465): the compressed file when there is
\* one, else the downloaded file itself.
AfterCompressYtq(k, t, c, d) ==
    IF c # "none" THEN Cfg(Done(t, c, k), d) ELSE Cfg(Done(t, t.file, k), d)

\* download_with_cookies (1883-1887)
AfterCompressCookies(k, t, c, d) ==
    IF c # "none" /\ Exists(d, c) THEN Cfg(Done(t, c, k), d)
    ELSE Cfg(Done(t, "none", k), d)

\* _download_direct_url_enhanced (2138-2153), download_m3u8_enhanced (2240-2255)
AfterCompressDirect(k, t, c, d) ==
    IF c # "none" /\ Exists(d, c)
    THEN IF Size(d, c) <= MAX_FILE_SIZE THEN Cfg(Done(t, c, k), Unlink(d, t.file))
         ELSE Cfg(Done(t, "none", k), d)
    ELSE Cfg(Done(t, "none", k), d)

AfterCompress(k, t, c, d) ==
    CASE Caller(k) = "enh" -> AfterCompressEnh(k, t, c, d)
      [] Caller(k) = "ytq" -> AfterCompressYtq(k, t, c, d)
      [] Caller(k) = "cookies" -> AfterCompressCookies(k, t, c, d)
      [] OTHER -> AfterCompressDirect(k, t, c, d)

\* _compress_video_ultra_fast up to its first await (update_compression_progress)
UltraFastBegin(t) == Suspend(t, "await_ultra")
\* _compress_video_aggressive up to the await of its first level
AggressiveBegin(t) == Suspend([t EXCEPT !.lvl = 1], "await_level")

\* Faulty variant: the sending budget is taken for the cut-off of the strategy.
_compress_video_smartByBudget(t, d) ==
    IF Size(d, t.file) < MAX_FILE_SIZE THEN UltraFastBegin(t) ELSE AggressiveBegin(t)

\* _compress_video_smart: the strategy by input size
_compress_video_smart(t, d) ==
    IF Size(d, t.file) < SMART_CUTOFF THEN UltraFastBegin(t) ELSE AggressiveBegin(t)

\* _compress_video_ultra_fast from its await to its return, then the caller
_compress_video_ultra_fast(k, t, d) ==
    {AfterCompress(k, [t EXCEPT !.calls = Append(@, 0)], o.out, o.d) :
        o \in compress_ultra_fast(k, d)}

\* Faulty variant: a level that timed out ends the ladder.
AggressiveNextTimeoutEnds(k, t, o) ==
    IF o.out # "none" /\ Exists(o.d, o.out)
    THEN AfterCompress(k, t, o.out, o.d)
    ELSE IF t.lvl < Len(compression_levels) /\ ~o.timeout
         THEN Cfg(Suspend([t EXCEPT !.lvl = @ + 1], "await_level"), o.d)
         ELSE AfterCompress(k, t, "none", o.d)

\* The loop of _compress_video_aggressive after level t.lvl returned o: return
\* the output that fits, else go on to the next level, else return None.
AggressiveNext(k, t, o) ==
    IF o.out # "none" /\ Exists(o.d, o.out)
    THEN AfterCompress(k, t, o.out, o.d)
    ELSE IF t.lvl < Len(compression_levels)
         THEN Cfg(Suspend([t EXCEPT !.lvl = @ + 1], "await_level"), o.d)
         ELSE AfterCompress(k, t, "none", o.d)

\* _compress_video_aggressive: one level, from its await on
_compress_video_aggressive(k, t, d) ==
    {AggressiveNext(k, TimedOut([t EXCEPT !.calls = Append(@, compression_levels[t.lvl])],
                                LevelName(t.lvl), o.timeout), o) :
        o \in compress_level(k, compression_levels[t.lvl], d)}


\* ------------------------------------------------------------ executors
\* A yt-dlp subprocess that fails (non-zero exit, timeout): with or without a
\* partial download left in temp_dir.
YtDlpFailed(k, d, part) == {d} \cup {Put(d, part, p, k) : p \in PartialSizes}
\* A yt-dlp subprocess that exits 0 having written (or found) the output file.
YtDlpWrote(k, d, out) == {PutIfAbsent(d, out, s, k) : s \in DownloadSizes}

\* _download_with_enhanced_compression (1573-1613): the file found by the
\* glob; within budget it is returned, over budget the compression starts.
EnhFound(k, t, d) ==
    IF GlobMedia(d) = {} THEN {Cfg(Done(t, "none", k), d)}
    ELSE {IF Size(d, f) > MAX_FILE_SIZE
          THEN Cfg(Suspend(Found(t, f, d), "await_smart"), d)
          ELSE Cfg(Done(Found(t, f, d), f, k), d) : f \in GlobMedia(d)}

\* _download_with_enhanced_compression (1503-1620) up to its first await; a
\* failed download raises and try_yt_dlp returns (None, None).
_download_with_enhanced_compression(k, t, d) ==
    {Cfg(Done(TimedOut(t, "download", to), "none", k), d2) :
        d2 \in YtDlpFailed(k, d, TitlePart), to \in MayTimeOut}
    \cup UNION {EnhFound(k, t, d2) : d2 \in YtDlpWrote(k, d, TitlePath)}

\* The selector profile was run and gave a file or not (result[0]).
Tried(t, profile, file) ==
    [t EXCEPT !.attempts = Append(@, [profile |-> profile, file |-> file])]

\* Faulty variant: the first quality that fails sends the loop to the fallback.
YoutubeNextQualityHasty(k, t, d) ==
    LET t1 == Tried(t, quality_levels[t.q], FALSE)
    IN  {Cfg(Done(Tried(t1, Fallback, FALSE), "none", k), d2) :
            d2 \in YtDlpFailed(k, d, TitlePart)}
        \cup UNION {{Cfg(Done(Found(Tried(t1, Fallback, TRUE), f, d2), f, k), d2) :
                        f \in GlobMedia(d2)} : d2 \in YtDlpWrote(k, d, TitlePath)}

\* download_with_yt_dlp (1302-1322): after quality t.q gave no file or raised,
\* the next quality, and after the last one _download_youtube_fallback
\* (1469-1501), which returns whatever file the glob finds.
YoutubeNextQuality(k, t, d) ==
    LET t1 == Tried(t, quality_levels[t.q], FALSE)
    IN  IF t.q < Len(quality_levels)
        THEN {Cfg(Suspend([t1 EXCEPT !.q = @ + 1, !.file = "none", !.fsize = -1],
                          "await_quality"), d)}
        ELSE {Cfg(Done(Tried(t1, Fallback, FALSE), "none", k), d2) :
                 d2 \in YtDlpFailed(k, d, TitlePart)}
             \cup UNION {{Cfg(Done(Found(Tried(t1, Fallback, TRUE), f, d2), f, k), d2) :
                             f \in GlobMedia(d2)} : d2 \in YtDlpWrote(k, d, TitlePath)}

\* _download_youtube_quality (1440-1467): the file found by the glob
YtqFound(k, t, d) ==
    LET t1 == Tried(t, quality_levels[t.q], TRUE)
    IN  IF GlobMedia(d) = {} THEN YoutubeNextQuality(k, t, d)
        ELSE UNION {IF Size(d, f) > MAX_VIDEO_SIZE THEN YoutubeNextQuality(k, t, d)
                    ELSE IF Size(d, f) > MAX_FILE_SIZE
                         THEN {Cfg(UltraFastBegin(Found(t1, f, d)), d)}
                         ELSE {Cfg(Done(Found(t1, f, d), f, k), d)} : f \in GlobMedia(d)}

\* _download_youtube_quality (1332-1467) from the await before it; the cookie
\* file is written first when Config.YOUTUBE_SAPISID is set.
_download_youtube_quality(k, t, d) ==
    LET d1 == IF hasCookies THEN Put(d, YoutubeCookiePath, 1, k) ELSE d
    IN  UNION {YoutubeNextQuality(k, t, d2) : d2 \in YtDlpFailed(k, d1, TitlePart)}
        \cup UNION {YtqFound(k, t, d2) : d2 \in YtDlpWrote(k, d1, TitlePath)}

\* download_with_yt_dlp (1287-1330) up to its first await
download_with_yt_dlp(k, t, d) ==
    IF platform = "youtube"
    THEN {Cfg(Suspend([t EXCEPT !.q = 1], "await_quality"), d)}
    ELSE _download_with_enhanced_compression(k, t, d)

\* download_with_cookies (1876-1922): rc == 0 and the file found by the glob
CookiesFound(k, t, d) ==
    IF GlobMedia(d) = {} THEN {Cfg(Done(t, "none", k), Unlink(d, CookiePath))}
    ELSE {IF Size(d, f) > MAX_FILE_SIZE
          THEN Cfg(UltraFastBegin(Found(t, f, d)), d)
          ELSE Cfg(Done(Found(t, f, d), f, k), d) : f \in GlobMedia(d)}

\* download_with_cookies (1789-1927) up to its first await
download_with_cookies(k, t, d) ==
    IF ~hasCookies THEN {Cfg(Done(t, "none", k), d)}
    ELSE LET d1 == Put(d, CookiePath, 1, k)
         IN  {Cfg(Done(t, "none", k), Unlink(d2, CookiePath)) :
                 d2 \in YtDlpFailed(k, d1, TitlePart)}
             \cup UNION {CookiesFound(k, t, d2) : d2 \in YtDlpWrote(k, d1, TitlePath)}

\* download_with_api (1701-1723) up to session.get
download_with_api(k, t, d) ==
    IF platform \in {"tiktok", "facebook", "twitter"}
    THEN {Cfg(Suspend(t, "await_get"), d)}
    ELSE {Cfg(Done(t, "none", k), d)}

\* How session.get(api_url) of download_with_api can end: the endpoint is
\* unreachable, the request times out, the status is not 200, the body is not
\* JSON, the JSON has no media URL, the JSON has one.
ApiAnswers == {"unreachable", "timeout", "status", "not_json", "no_url", "url"}

\* Faulty variant: the status of the answer is not looked at.
ApiAnsweredUnchecked(k, t, d) ==
    {IF answer \in {"url", "status"}
     THEN Cfg(Suspend([t EXCEPT !.answer = answer], "await_head"), d)
     ELSE Cfg(Done([t EXCEPT !.answer = answer], "none", k), d) : answer \in ApiAnswers}

\* download_with_api (1724-1787) after session.get: no usable answer, or a
\* media URL handed to _download_direct_url_enhanced, which awaits client.head
ApiAnswered(k, t, d) ==
    {IF answer = "url"
     THEN Cfg(Suspend([t EXCEPT !.answer = answer], "await_head"), d)
     ELSE Cfg(Done([t EXCEPT !.answer = answer], "none", k), d) : answer \in ApiAnswers}

\* _download_direct_url_enhanced (2101-2110): the HEAD answer only sets
\* total_size; then the GET is sent
DirectAfterHead(k, t, d) ==
    {Cfg(Suspend(TimedOut(t, "head", to), "await_stream"), d) : to \in MayTimeOut}

\* _download_direct_url_enhanced (2110-2124): a bad status or an error ends it,
\* else the file is opened for writing and the first chunk is awaited
DirectStreamOpened(k, t, d) ==
    {Cfg(Done(t, "none", k), d)}
    \cup {Cfg(Suspend([t EXCEPT !.file = VideoPath(k), !.total = s, !.chunks = 0],
                      "await_chunk"), Put(d, VideoPath(k), 0, k)) : s \in DownloadSizes}

\* Faulty variant: the size test is dropped and every download is compressed.
DirectDownloadedAlwaysCompress(k, t, d) == Cfg(_compress_video_smart(t, d), d)

\* _download_direct_url_enhanced (2132-2155): the transfer is complete
DirectDownloaded(k, t, d) ==
    IF Size(d, t.file) > MAX_FILE_SIZE
    THEN Cfg(_compress_video_smart(t, d), d)
    ELSE Cfg(Done(t, t.file, k), d)

\* _download_direct_url_enhanced (2125-2130): one more chunk written, or the
\* transfer breaks and leaves the partial file
DirectChunk(k, t, d) ==
    {Cfg(Done(t, "none", k), d)}
    \cup (IF t.chunks + 1 < MaxChunks
          THEN {Cfg([t EXCEPT !.chunks = @ + 1], Put(d, t.file, p, k)) : p \in PartialSizes}
          ELSE {DirectDownloaded(k, Found([t EXCEPT !.chunks = @ + 1], t.file,
                                          Put(d, t.file, t.total, k)),
                                 Put(d, t.file, t.total, k))})

\* download_m3u8_enhanced (2164-2262) from its await on
download_m3u8_enhanced(k, t, d) ==
    {Cfg(Done(t, "none", k), d2) : d2 \in YtDlpFailed(k, d, StreamPart)}
    \cup {DirectDownloaded(k, Found(t, StreamPath, d2), d2) :
             d2 \in YtDlpWrote(k, d, StreamPath)}


\* ----------------------------------------------------------- task steps
RaceSet == {RaceKinds[i] : i \in 1..Len(RaceKinds)}
\* task.cancel() was called and the CancelledError is not yet thrown into it
CancelPending(t) == t.cancelReq /\ ~t.cancelRaised
\* The tasks are scheduled by create_task before download_video first awaits,
\* so each has had its first run before any resumed task or the racer runs.
AllStarted == \A j \in Kinds : task[j].pc # "start"
\* The event loop resumes task k at the await named pc.
At(k, pc) == task[k].pc = pc /\ ~CancelPending(task[k]) /\ (pc # "start" => AllStarted)
\* The loop runs new tasks in the order create_task scheduled them.
FirstRun(k) ==
    /\ At(k, "start")
    /\ \A i, j \in 1..Len(RaceKinds) :
          (i < j /\ RaceKinds[j] = k) => task[RaceKinds[i]].pc # "start"

\* as_completed: a task that finishes is queued in completion order.
Completed(k, t) ==
    IF t.pc \in {"done", "cancelled"} /\ racer.pc = "racing"
    THEN [racer EXCEPT !.queue = Append(@, k), !.order = Append(@, k)] ELSE racer

\* Task k runs to one of the configurations cfgs: its next await or its end.
Run(k, cfgs) ==
    /\ \E c \in cfgs :
          /\ task' = [task EXCEPT ![k] = c.t]
          /\ disk' = c.d
          /\ racer' = Completed(k, c.t)
    /\ UNCHANGED <<trackerVars, webVars, classifierVars>>
    /\ UNCHANGED <<entry, platform, hasCookies, request>>

\* try_yt_dlp (2290-2298), try_api (2300-2308), try_cookies (2310-2318): the
\* first run of each task
try_yt_dlp == FirstRun("ytdlp") /\ Run("ytdlp", download_with_yt_dlp("ytdlp", task["ytdlp"], disk))
try_api == FirstRun("api") /\ Run("api", download_with_api("api", task["api"], disk))
try_cookies ==
    FirstRun("cookies") /\ Run("cookies", download_with_cookies("cookies", task["cookies"], disk))
\* download_video (2270-2271): download_m3u8_enhanced awaits its first
\* update_compression_progress
StartM3u8 == At("m3u8", "start") /\ Run("m3u8", {Cfg(Suspend(task["m3u8"], "await_m3u8"), disk)})
\* download_video (2274-2285): _download_direct_url_enhanced awaits client.head
StartDirect ==
    At("direct", "start") /\ Run("direct", {Cfg(Suspend(task["direct"], "await_head"), disk)})

ResumeQuality(k) == At(k, "await_quality") /\ Run(k, _download_youtube_quality(k, task[k], disk))
ResumeSmart(k) ==
    At(k, "await_smart") /\ Run(k, {Cfg(_compress_video_smart(task[k], disk), disk)})
ResumeUltra(k) == At(k, "await_ultra") /\ Run(k, _compress_video_ultra_fast(k, task[k], disk))
ResumeLevel(k) == At(k, "await_level") /\ Run(k, _compress_video_aggressive(k, task[k], disk))
ResumeGet(k) == At(k, "await_get") /\ Run(k, ApiAnswered(k, task[k], disk))
ResumeHead(k) == At(k, "await_head") /\ Run(k, DirectAfterHead(k, task[k], disk))
ResumeStream(k) == At(k, "await_stream") /\ Run(k, DirectStreamOpened(k, task[k], disk))
ResumeChunk(k) == At(k, "await_chunk") /\ Run(k, DirectChunk(k, task[k], disk))
ResumeM3u8(k) == At(k, "await_m3u8") /\ Run(k, download_m3u8_enhanced(k, task[k], disk))

\* What the CancelledError does at the await the task is suspended at.  Every
\* handler on the way up is "except Exception", which does not catch it, but
\* the bare "except:" around client.head (2101-2108) does: total_size = 0 and
\* the download goes on.
CancelledAt(k, t, d) ==
    IF t.pc = "await_head"
    THEN DirectAfterHead(k, [t EXCEPT !.cancelRaised = TRUE], d)
    ELSE {Cfg([t EXCEPT !.cancelRaised = TRUE, !.pc = "cancelled"], d)}

\* The loop throws the CancelledError into a task cancel() was called on.
DeliverCancel(k) ==
    /\ CancelPending(task[k])
    /\ task[k].pc \in AwaitPcs \cup {"start"}
    /\ Run(k, CancelledAt(k, task[k], disk))

\* ------------------------------------------------------------ the racer
\* Faulty variant: the winner is returned without cancelling anything.
CancelSiblingsSkipped(tk) == tk

\* for task in tasks: if not task.done(): task.cancel()
CancelSiblings(tk) ==
    [k \in Kinds |-> IF tk[k].pc \in AwaitPcs \cup {"start"}
                     THEN [tk[k] EXCEPT !.cancelReq = TRUE] ELSE tk[k]]

\* Faulty variant: the first completed task's result is returned, file or not.
RacerStepAnyResult(r, tk, d) ==
    [r |-> [r EXCEPT !.pc = "returned", !.returned = tk[Head(r.queue)].result,
                     !.queue = Tail(@), !.seen = @ + 1],
     tk |-> CancelSiblings(tk), d |-> d]

\* Faulty variant: the loop gives up one task early.
RacerStepGivesUpEarly(r, tk, d) ==
    LET res == tk[Head(r.queue)].result
    IN  IF res.file # "none"
        THEN [r |-> [r EXCEPT !.pc = "returned", !.returned = res, !.queue = Tail(@),
                              !.seen = @ + 1],
              tk |-> CancelSiblings(tk), d |-> d]
        ELSE [r |-> [r EXCEPT !.queue = Tail(@), !.seen = @ + 1,
                              !.pc = IF r.seen + 1 >= Len(RaceKinds) - 1 THEN "returned" ELSE @],
              tk |-> tk, d |-> d]

\* Faulty variant: on a win the files the other executors created are removed.
RacerStepCleaning(r, tk, d) ==
    LET res == tk[Head(r.queue)].result
    IN  IF res.file # "none"
        THEN [r |-> [r EXCEPT !.pc = "returned", !.returned = res, !.queue = Tail(@),
                              !.seen = @ + 1],
              tk |-> CancelSiblings(tk),
              d |-> [n \in Names |-> IF d[n].by = res.meta THEN d[n] ELSE NoFile]]
        ELSE [r |-> [r EXCEPT !.queue = Tail(@), !.seen = @ + 1,
                              !.pc = IF r.seen + 1 = Len(RaceKinds) THEN "returned" ELSE @],
              tk |-> tk, d |-> d]

\* download_video (2329-2347): one turn of "for completed in as_completed":
\* a result with a file is returned after cancelling the tasks not done;
\* after the last task without one, (None, None) is returned.
RacerStep(r, tk, d) ==
    LET k == Head(r.queue)
        res == tk[k].result
    IN  IF res.file # "none"
        THEN [r |-> [r EXCEPT !.pc = "returned", !.returned = res, !.queue = Tail(@),
                              !.seen = @ + 1],
              tk |-> CancelSiblings(tk), d |-> d]
        ELSE [r |-> [r EXCEPT !.queue = Tail(@), !.seen = @ + 1,
                              !.pc = IF r.seen + 1 = Len(RaceKinds) THEN "returned" ELSE @],
              tk |-> tk, d |-> d]

download_video ==
    /\ entry = "race"
    /\ racer.pc = "racing"
    /\ racer.queue # <<>>
    /\ AllStarted
    /\ racer' = RacerStep(racer, task, disk).r
    /\ task' = RacerStep(racer, task, disk).tk
    /\ disk' = RacerStep(racer, task, disk).d
    /\ UNCHANGED <<trackerVars, webVars, classifierVars>>
    /\ UNCHANGED <<entry, platform, hasCookies, request>>

\* An executor awaited on its own: its caller resumes with its result.
ExecReturn ==
    /\ entry = "exec"
    /\ racer.pc = "awaiting"
    /\ \E k \in Kinds : task[k].pc = "done" /\ racer' = [racer EXCEPT !.pc = "returned",
                                                         !.returned = task[k].result]
    /\ UNCHANGED <<trackerVars, webVars, classifierVars>>
    /\ UNCHANGED <<entry, platform, hasCookies, disk, task, request>>

\* ------------------------------------------------- the progress reporter
\* update_progress: "if now - self.last_update < 1.2", three units of 0.4 s
THROTTLE == 3
\* The clock of a run stops here.
MaxClock == 7
\* No report is started once this many edits went through.
MaxEmitted == 3
\* No more edits than this raise in one run.
MaxErrors == 2
\* The size of the transfer, and the sizes of the chunks aiter_bytes yields.
MaxBytes == 3
ChunkSizes == {1, 2}
\* The coroutines reporting to one tracker: the chunk loop of
\* _download_direct_url_enhanced, and a step that calls
\* update_compression_progress (another racing executor, or the handler).
Producers == {"download", "compression"}

\* ProgressTracker.__init__ (835-842); errors: the warnings logged
NewTracker == [last_update |-> 0, last_bytes |-> 0, errors |-> 0, speed_samples |-> <<>>]
\* A producer that is not inside a report operation.
IdleProducer == [pc |-> "idle", now |-> 0, current |-> 0, downloaded |-> 0, kind |-> "none"]

InitTracker ==
    /\ clock = THROTTLE
    /\ tracker = NewTracker
    /\ producer = [p \in Producers |-> IdleProducer]
    /\ emitted = <<>>

\* web_download (748-757): download_progress[download_id] = {...}; writes:
\* the percentages written into the record, in order
NewProgress ==
    [progress |-> 0, status |-> "Starting download...", completed |-> FALSE,
     error |-> "None", result |-> "None", title |-> "", writes |-> <<0>>]

\* Faulty variant: the upload stage starts the percentage again.
StageUploadFromZero(rec, progress, status) ==
    [rec EXCEPT !.progress = IF status = "Uploading" THEN 0 ELSE progress,
                !.status = status,
                !.writes = Append(@, IF status = "Uploading" THEN 0 ELSE progress)]

\* download_progress[download_id]['status'] = ..., ['progress'] = ... : a
\* stage write of process_web_download; writes: every percentage written
Stage(rec, progress, status) ==
    [rec EXCEPT !.progress = progress, !.status = status, !.writes = Append(@, progress)]
\* No more chats than this talk to the bot.
MaxChats == 3
Chats == 1..MaxChats
\* No more downloads than this are delivered to one chat.
MaxDownloads == 2
\* chat_id not in user_states; pending_url "none": no such key
NoSession ==
    [known |-> FALSE, joined_channel |-> FALSE, pending_url |-> "none", download_count |-> 0]
\* user_states = {} (181)
NoUsers == [c \in Chats |-> NoSession]
\* download_stats at the start of the bot
NewStats == [total_users |-> 0, total_downloads |-> 0]
\* The chat whose request the handlers of one request serve
TheChat == 1

\* The Flask server handles no more requests than this at a time.
MaxRequests == 7
\* No request has come in.
NoWebhooks == [r \in 1..MaxRequests |-> "idle"]
\* No web download and no classification is part of the run.
InitOthers ==
    /\ download_progress = NewProgress
    /\ webhook = NoWebhooks
    /\ user_states = NoUsers
    /\ download_stats = NewStats
    /\ url = <<>>
    /\ tags = <<>>

\* Faulty variant: the progress shows the size of the last chunk.
DownloadedLastChunk(n, c) == c

\* _download_direct_url_enhanced (2127): downloaded += len(chunk)
Downloaded(n, c) == n + c

\* update_progress (844-912) up to its await: nothing when the last update is
\* less than 1.2 s old, else edit_message_text is awaited.
update_progress(p, current) ==
    IF clock - tracker.last_update < THROTTLE
    THEN p
    ELSE [p EXCEPT !.pc = "editing", !.now = clock, !.current = current, !.kind = "progress"]

\* update_compression_progress (918-931) up to its await
update_compression_progress(p) ==
    [p EXCEPT !.pc = "editing", !.kind = "compression", !.current = 0]

\* Faulty variant: the exception of the edit reaches the producer.
EditFailedPropagates(p) == [p EXCEPT !.pc = "failed"]

\* except Exception as e: logger.warning(...) (915-916, 932-933): the report
\* operation returns normally
EditFailed(p) == [p EXCEPT !.pc = "idle"]

\* update_progress (913-914) after the edit: self.last_update = now,
\* self.last_bytes = current; update_compression_progress sets nothing.
EditSucceeded(tr, p) ==
    IF p.kind = "progress"
    THEN [tr EXCEPT !.last_update = p.now, !.last_bytes = p.current]
    ELSE tr

\* "if len(self.speed_samples) > 5"
SpeedWindow == 5

\* A speed: n bytes in d units of time
Speed(n, d) == [n |-> n, d |-> d]
\* update_progress (855-856): elapsed and bytes_per_sec
bytes_per_sec(tr, now, current) ==
    Speed(current - tr.last_bytes, IF tr.last_update > 0 THEN now - tr.last_update ELSE 1)

\* Faulty variant: the newest sample is the one dropped.
PopDropsNewest(speed_samples) ==
    IF Len(speed_samples) > SpeedWindow
    THEN SubSeq(speed_samples, 1, SpeedWindow)
    ELSE speed_samples

\* update_progress (860-861): self.speed_samples.pop(0)
Pop(speed_samples) ==
    IF Len(speed_samples) > SpeedWindow THEN Tail(speed_samples) ELSE speed_samples

\* update_progress (854-861): the tracker after the sample of this call
Sampled(tr, now, current) ==
    IF current > tr.last_bytes
    THEN [tr EXCEPT !.speed_samples = Pop(Append(@, bytes_per_sec(tr, now, current)))]
    ELSE tr

RECURSIVE GCD(_, _)
GCD(a, b) == IF b = 0 THEN a ELSE GCD(b, a % b)
\* n / d in lowest terms
Lowest(n, d) == Speed(n \div GCD(n, d), d \div GCD(n, d))
\* sum(self.speed_samples)
RECURSIVE Sum(_)
Sum(speed_samples) ==
    IF speed_samples = <<>> THEN Speed(0, 1)
    ELSE LET a == Head(speed_samples)
             b == Sum(Tail(speed_samples))
         IN  Lowest(a.n * b.d + b.n * a.d, a.d * b.d)
\* update_progress (863): avg_speed
avg_speed(speed_samples) ==
    LET total == Sum(speed_samples) IN Speed(total.n, total.d * Len(speed_samples))

\* The float formatting of n / d without decimals: the nearest integer, the
\* even one of two that are as near
Rounded(n, d) ==
    LET q == n \div d
        r == n % d
    IN  IF 2 * r > d THEN q + 1
        ELSE IF 2 * r = d THEN q + (q % 2)
        ELSE q
\* update_progress (864-869): the speed in the text of the message; MB/s is
\* written with one decimal (value: the tenths), KB/s and B/s with none.
FormatSpeed(avg) ==
    IF avg.n \div avg.d < 1024
    THEN [value |-> Rounded(avg.n, avg.d), unit |-> "B/s"]
    ELSE IF avg.n > 1024 * 1024 * avg.d
    THEN [value |-> Rounded(10 * avg.n, 1024 * 1024 * avg.d), unit |-> "MB/s"]
    ELSE IF avg.n > 1024 * avg.d
    THEN [value |-> Rounded(avg.n, 1024 * avg.d), unit |-> "KB/s"]
    ELSE [value |-> Rounded(avg.n, avg.d), unit |-> "B/s"]

\* Time passes.
Tick ==
    /\ entry = "progress"
    /\ clock < MaxClock
    /\ clock' = clock + 1
    /\ UNCHANGED <<tracker, producer, emitted>>
    /\ UNCHANGED <<downloadVars, webVars, classifierVars>>

\* _download_direct_url_enhanced (2125-2130): one chunk is written and
\* update_progress(downloaded, total) is called.
WriteChunk ==
    /\ entry = "progress"
    /\ producer["download"].pc = "idle"
    /\ producer["download"].downloaded < MaxBytes
    /\ Len(emitted) < MaxEmitted
    /\ \E c \in ChunkSizes :
          LET n == Downloaded(producer["download"].downloaded, c)
          IN  /\ producer' = [producer EXCEPT !["download"] =
                                 update_progress([@ EXCEPT !.downloaded = n], n)]
              /\ tracker' = IF clock - tracker.last_update < THROTTLE THEN tracker
                             ELSE Sampled(tracker, clock, n)
    /\ UNCHANGED <<clock, emitted>>
    /\ UNCHANGED <<downloadVars, webVars, classifierVars>>

\* A step of the request calls update_compression_progress.
ReportCompression ==
    /\ entry = "progress"
    /\ producer["compression"].pc = "idle"
    /\ Len(emitted) < MaxEmitted
    /\ producer' = [producer EXCEPT !["compression"] = update_compression_progress(@)]
    /\ UNCHANGED <<clock, tracker, emitted>>
    /\ UNCHANGED <<downloadVars, webVars, classifierVars>>

\* bot.edit_message_text returned: the progress message shows the update.
EditReturned(p) ==
    /\ entry = "progress"
    /\ producer[p].pc = "editing"
    /\ emitted' = Append(emitted, [at |-> clock, kind |-> producer[p].kind,
                                   bytes |-> producer[p].current])
    /\ tracker' = EditSucceeded(tracker, producer[p])
    /\ producer' = [producer EXCEPT ![p].pc = "idle"]
    /\ UNCHANGED clock
    /\ UNCHANGED <<downloadVars, webVars, classifierVars>>

\* bot.edit_message_text raised
EditRaised(p) ==
    /\ entry = "progress"
    /\ producer[p].pc = "editing"
    /\ tracker.errors < MaxErrors
    /\ tracker' = [tracker EXCEPT !.errors = @ + 1]
    /\ producer' = [producer EXCEPT ![p] = EditFailed(@)]
    /\ UNCHANGED <<clock, emitted>>
    /\ UNCHANGED <<downloadVars, webVars, classifierVars>>

\* ------------------------------------------------------- specifications
\* queue: the completed tasks as_completed has not yet yielded; order: all of
\* them, in completion order; causes: the error causes the return value
\* carries (the code returns the bare (None, None)).
NewRacer(pc) ==
    [pc |-> pc, queue |-> <<>>, order |-> <<>>, seen |-> 0, returned |-> NoResult,
     causes |-> {}]

\* No handler is part of the run.
NoRequest ==
    [pc |-> "off", tempdir |-> FALSE, api |-> FALSE, reported |-> "none", left |-> {},
     result |-> NoResult, tried |-> {}, channel |-> FALSE,
     offered |-> <<>>, tier |-> "none", attempted |-> <<>>,
     invocations |-> 0, ended |-> "none", quality_info |-> [info |-> FALSE, video_formats |-> <<>>],
     formats |-> <<>>, unique_video_formats |-> <<>>, delivered |-> FALSE]

\* download_video for a platform other than m3u8 / direct: three new tasks
\* over a fresh temp_dir (tempfile.mkdtemp in __init__).
InitRace ==
    /\ entry = "race"
    /\ platform \in {"youtube", "tiktok", "instagram"}
    /\ hasCookies \in BOOLEAN
    /\ task = [k \in Kinds |-> IF k \in RaceSet THEN NewTask ELSE OffTask]
    /\ disk = EmptyDisk
    /\ racer = NewRacer("racing")
    /\ request = NoRequest
    /\ InitTracker
    /\ InitOthers

ExecPlatforms(k) ==
    CASE k = "m3u8" -> {"m3u8"}
      [] k = "direct" -> {"direct"}
      [] OTHER -> {"youtube", "tiktok", "instagram"}

\* One executor awaited alone over a fresh temp_dir.
InitExec ==
    /\ entry = "exec"
    /\ \E k0 \in Kinds :
          /\ platform \in ExecPlatforms(k0)
          /\ task = [k \in Kinds |-> IF k = k0 THEN NewTask ELSE OffTask]
    /\ hasCookies \in BOOLEAN
    /\ disk = EmptyDisk
    /\ racer = NewRacer("awaiting")
    /\ request = NoRequest
    /\ InitTracker
    /\ InitOthers

ExecStep(k) ==
    \/ ResumeQuality(k)
    \/ ResumeSmart(k)
    \/ ResumeUltra(k)
    \/ ResumeLevel(k)
    \/ ResumeGet(k)
    \/ ResumeHead(k)
    \/ ResumeStream(k)
    \/ ResumeChunk(k)

NextRace ==
    \/ try_yt_dlp
    \/ try_api
    \/ try_cookies
    \/ \E k \in RaceSet : ExecStep(k)
    \/ \E k \in RaceSet : DeliverCancel(k)
    \/ download_video

NextExec ==
    \/ try_yt_dlp
    \/ try_api
    \/ try_cookies
    \/ StartM3u8
    \/ StartDirect
    \/ \E k \in Kinds : ExecStep(k)
    \/ \E k \in Kinds : ResumeM3u8(k)
    \/ ExecReturn

SpecRace == InitRace /\ [][NextRace]_vars
SpecExec == InitExec /\ [][NextExec]_vars


\* ------------------------------------------------------- the sessions
\* start_command (2717-2720): a new chat gets its session
Started(us, c) ==
    IF us[c].known THEN us
    ELSE [us EXCEPT ![c] = [NoSession EXCEPT !.known = TRUE]]

\* check_membership_callback (2777-2779): the chat is a member; for a chat
\* that has no session the assignment raises KeyError.
Verified(us, c) ==
    IF us[c].known THEN [us EXCEPT ![c].joined_channel = TRUE] ELSE us

\* Faulty variant: a URL is taken from any chat.
MayDownloadAnyone(us, c) == TRUE

\* handle_url (2835): "if chat_id not in user_states or not
\* user_states[chat_id].get('joined_channel', False)" does not hold
MayDownload(us, c) == us[c].known /\ us[c].joined_channel

\* handle_url (2880-2882): the URL is stored for the quality selection
Pending(us, c, u) ==
    [us EXCEPT ![c] = [(IF us[c].known THEN us[c] ELSE NoSession)
                          EXCEPT !.known = TRUE, !.pending_url = u]]

\* handle_quality_selection (3228-3230, 3261-3262): del pending_url
Cleared(us, c) ==
    IF us[c].known THEN [us EXCEPT ![c].pending_url = "none"] ELSE us

\* handle_quality_selection (3228-3233): the file was sent
Delivered(us, c) == [Cleared(us, c) EXCEPT ![c].download_count = @ + 1]
\* handle_quality_selection (3234)
Counted(stats) == [stats EXCEPT !.total_downloads = @ + 1]

SessionStep == entry = "session"

\* start_command (2712-2723)
start_command(c) ==
    /\ SessionStep
    /\ user_states' = Started(user_states, c)
    /\ download_stats' = IF user_states[c].known THEN download_stats
                         ELSE [download_stats EXCEPT !.total_users = @ + 1]
    /\ UNCHANGED <<download_progress, webhook>>
    /\ UNCHANGED <<downloadVars, trackerVars, classifierVars>>

\* check_membership_callback (2760-2779): get_chat_member says the user is a
\* member, or is not, or raises.
check_membership_callback(c) ==
    /\ SessionStep
    /\ \E is_member \in BOOLEAN :
          user_states' = IF is_member THEN Verified(user_states, c) ELSE user_states
    /\ UNCHANGED <<download_progress, webhook, download_stats>>
    /\ UNCHANGED <<downloadVars, trackerVars, classifierVars>>

\* handle_url (2828-2882): a chat that has not joined is told to, a text that
\* is no URL is refused, else the URL is stored.
UrlReceived(c) ==
    /\ SessionStep
    /\ \E valid \in BOOLEAN :
          user_states' = IF MayDownload(user_states, c) /\ valid
                         THEN Pending(user_states, c, "url")
                         ELSE user_states
    /\ UNCHANGED <<download_progress, webhook, download_stats>>
    /\ UNCHANGED <<downloadVars, trackerVars, classifierVars>>

\* handle_quality_selection (3029-3262) for a chat with a pending URL: the
\* file is sent, or there is no file, or an exception is handled.
QualitySelected(c) ==
    /\ SessionStep
    /\ user_states[c].known /\ user_states[c].pending_url # "none"
    /\ \/ /\ user_states[c].download_count < MaxDownloads
          /\ user_states' = Delivered(user_states, c)
          /\ download_stats' = Counted(download_stats)
       \/ /\ UNCHANGED <<user_states, download_stats>>
       \/ /\ user_states' = Cleared(user_states, c)
          /\ UNCHANGED download_stats
    /\ UNCHANGED <<download_progress, webhook>>
    /\ UNCHANGED <<downloadVars, trackerVars, classifierVars>>

InitSession ==
    /\ entry = "session"
    /\ platform = "unknown"
    /\ hasCookies = FALSE
    /\ task = [k \in Kinds |-> OffTask]
    /\ disk = EmptyDisk
    /\ racer = NewRacer("awaiting")
    /\ request = NoRequest
    /\ InitTracker
    /\ InitOthers

NextSession ==
    \E c \in Chats :
        \/ start_command(c)
        \/ check_membership_callback(c)
        \/ UrlReceived(c)
        \/ QualitySelected(c)

SpecSession == InitSession /\ [][NextSession]_vars

\* ---------------------------------------------------- the request handlers
\* What a request has created and not yet deleted: the files, and temp_dir.
Artifacts(r, d) == FilesOn(d) \cup (IF r.tempdir THEN {"temp_dir"} ELSE {})
\* shutil.rmtree(self.temp_dir, ignore_errors=True)
rmtree(d) == [n \in Names |-> IF n \in TempDirNames THEN NoFile ELSE d[n]]
\* The handler tells the user the request failed (kind "failed" / "error").
Report(r, kind, d) == [r EXCEPT !.reported = kind, !.left = Artifacts(r, d)]

\* The sizes of an audio file
AudioSizes == {5}

\* _download_with_ytdlp_quality (2543-2617): the info command fails, the
\* download command fails (maybe leaving a partial file), or the file is found.
\* For "audio" the selector is bestaudio[ext=m4a]/bestaudio[ext=mp3]/
\* bestaudio/best: yt-dlp writes an m4a, which the scan of 2602-2603 does not
\* take, or an mp3, or with "best" the video.
_download_with_ytdlp_quality(quality_type, d) ==
    {[res |-> NoResult, d |-> d]}
        \cup {[res |-> NoResult, d |-> Put(d, QualityPart, s, "quality")] : s \in PartialSizes}
        \cup {[res |-> [file |-> QualityPath, meta |-> "quality"],
               d |-> Put(d, QualityPath, s, "quality")] : s \in DownloadSizes}
        \cup (IF quality_type = "audio"
              THEN {[res |-> NoResult, d |-> Put(d, QualityM4aPath, s, "quality")] :
                       s \in AudioSizes}
                   \cup {[res |-> [file |-> QualityMp3Path, meta |-> "quality"],
                          d |-> Put(d, QualityMp3Path, s, "quality")] : s \in AudioSizes}
              ELSE {})

\* _extract_audio_as_mp3 (2674-2703): the mp3 is written next to the video,
\* or None is returned (no audio track, or moviepy raises).
_extract_audio_as_mp3(video_path, d) ==
    {[audio_file |-> "none", d |-> d]}
        \cup {[audio_file |-> ExtractedPath, d |-> Put(d, ExtractedPath, s, d[video_path].by)] :
                 s \in AudioSizes}

\* _apply_quality_conversion (2469-2479): the file is renamed to the enhanced
\* filename, or keeps its path when os.rename fails.
Renamed(res, d) ==
    {[res |-> res, d |-> d],
     [res |-> [res EXCEPT !.file = EnhancedPath],
      d |-> Unlink(Put(d, EnhancedPath, Size(d, res.file), d[res.file].by), res.file)]}

\* _apply_quality_conversion (2441-2479): for "audio" the mp3 is extracted and
\* the video removed; without an mp3, and for a video quality, the code goes
\* on to the renaming of the file.
_apply_quality_conversion(res, quality_type, d) ==
    IF res.file = "none" \/ ~Exists(d, res.file)
    THEN {[res |-> NoResult, d |-> d]}
    ELSE IF quality_type = "audio"
    THEN UNION {IF o.audio_file # "none"
                THEN {[res |-> [res EXCEPT !.file = o.audio_file],
                       d |-> Unlink(o.d, res.file)]}
                ELSE Renamed(res, o.d) : o \in _extract_audio_as_mp3(res.file, d)}
    ELSE Renamed(res, d)

HandlerStep(pc) == entry = "quality" /\ request.pc = pc

\* handle_quality_selection (3004-3098): SocialMediaDownloader() makes the
\* temp_dir and download_video_with_quality awaits its first progress update.
handle_quality_selection ==
    /\ HandlerStep("start")
    /\ request' = [request EXCEPT !.pc = "priority1", !.tempdir = TRUE]
    /\ UNCHANGED <<trackerVars, webVars, classifierVars>>
    /\ UNCHANGED <<entry, platform, hasCookies, task, disk, racer>>

\* Faulty variant: Priority 2 is started whatever Priority 1 returned.
download_video_with_qualityEager ==
    /\ HandlerStep("priority1")
    /\ \E o \in _download_with_ytdlp_quality(request.tier, disk) :
          /\ disk' = o.d
          /\ request' = [request EXCEPT !.pc = "priority2", !.result = o.res,
                                        !.tried = {"package", "api"}]
          /\ task' = [task EXCEPT !["api"] = NewTask]
    /\ UNCHANGED <<trackerVars, webVars, classifierVars>>
    /\ UNCHANGED <<entry, platform, hasCookies, racer>>

\* download_video_with_quality (2378-2403): Priority 1, then download_with_api
\* is awaited.
download_video_with_quality ==
    /\ HandlerStep("priority1")
    /\ \E o \in _download_with_ytdlp_quality(request.tier, disk) :
          /\ disk' = o.d
          /\ IF o.res.file # "none"
             THEN /\ request' = [request EXCEPT !.pc = "upload", !.result = o.res,
                                                !.tried = {"package"}]
                  /\ task' = task
             ELSE /\ request' = [request EXCEPT !.pc = "priority2",
                                                !.tried = {"package", "api"}]
                  /\ task' = [task EXCEPT !["api"] = NewTask]
    /\ UNCHANGED <<trackerVars, webVars, classifierVars>>
    /\ UNCHANGED <<entry, platform, hasCookies, racer>>

\* Faulty variant: a Priority 2 failure ends the request; Priority 3 is not
\* tried.
Priority2ReturnedTerminal ==
    /\ HandlerStep("priority2")
    /\ task["api"].pc = "done"
    /\ \E o \in _apply_quality_conversion(task["api"].result, request.tier, disk) :
          /\ disk' = o.d
          /\ IF o.res.file # "none"
             THEN request' = [request EXCEPT !.pc = "upload", !.result = o.res]
             ELSE request' = [Report(request, "failed", o.d) EXCEPT !.pc = "exiting"]
    /\ UNCHANGED <<trackerVars, webVars, classifierVars>>
    /\ UNCHANGED <<entry, platform, hasCookies, task, racer>>

\* download_video_with_quality (2410-2424): download_with_api returned
Priority2Returned ==
    /\ HandlerStep("priority2")
    /\ task["api"].pc = "done"
    /\ \E o \in _apply_quality_conversion(task["api"].result, request.tier, disk) :
          /\ disk' = o.d
          /\ IF o.res.file # "none"
             THEN /\ request' = [request EXCEPT !.pc = "upload", !.result = o.res]
                  /\ task' = task
             ELSE /\ request' = [request EXCEPT !.pc = "priority3",
                                                !.tried = @ \cup {"cookies"}]
                  /\ task' = [task EXCEPT !["cookies"] = NewTask]
    /\ UNCHANGED <<trackerVars, webVars, classifierVars>>
    /\ UNCHANGED <<entry, platform, hasCookies, racer>>

\* download_video_with_quality (2426-2439) and handle_quality_selection
\* (3099-3111): download_with_cookies returned; without a file the handler
\* edits the message to "Enhanced Download Failed" inside the "async with".
Priority3Returned ==
    /\ HandlerStep("priority3")
    /\ task["cookies"].pc = "done"
    /\ \E o \in _apply_quality_conversion(task["cookies"].result, request.tier, disk) :
          /\ disk' = o.d
          /\ IF o.res.file # "none"
             THEN request' = [request EXCEPT !.pc = "upload", !.result = o.res]
             ELSE request' = [Report(request, "failed", o.d) EXCEPT !.pc = "exiting"]
    /\ UNCHANGED <<trackerVars, webVars, classifierVars>>
    /\ UNCHANGED <<entry, platform, hasCookies, task, racer>>

\* handle_quality_selection (3113-3245): the upload; when it is through
\* pending_url is deleted, the downloads are counted and the file is unlinked,
\* when it raises the exception leaves the "async with".
SendVideo ==
    /\ HandlerStep("upload")
    /\ \/ /\ request' = [request EXCEPT !.pc = "exiting", !.reported = "done"]
          /\ disk' = Unlink(disk, request.result.file)
          /\ user_states' = Delivered(user_states, TheChat)
          /\ download_stats' = Counted(download_stats)
       \/ /\ request' = [request EXCEPT !.pc = "raising"]
          /\ disk' = disk
          /\ UNCHANGED sessionVars
    /\ UNCHANGED <<download_progress, webhook>>
    /\ UNCHANGED <<trackerVars, classifierVars>>
    /\ UNCHANGED <<entry, platform, hasCookies, task, racer>>

\* __aexit__ (1144-1153)
__aexit__ ==
    /\ entry = "quality"
    /\ request.pc \in {"exiting", "raising"}
    /\ disk' = rmtree(disk)
    /\ request' = [request EXCEPT !.tempdir = FALSE,
                                  !.pc = IF request.pc = "raising" THEN "except" ELSE "closed"]
    /\ UNCHANGED <<trackerVars, webVars, classifierVars>>
    /\ UNCHANGED <<entry, platform, hasCookies, task, racer>>

\* handle_quality_selection (3247-3262): except Exception: "Download Failed",
\* and pending_url is deleted
ReportError ==
    /\ HandlerStep("except")
    /\ request' = [Report(request, "error", disk) EXCEPT !.pc = "closed"]
    /\ user_states' = Cleared(user_states, TheChat)
    /\ UNCHANGED <<download_progress, webhook, download_stats>>
    /\ UNCHANGED <<trackerVars, classifierVars>>
    /\ UNCHANGED <<entry, platform, hasCookies, task, disk, racer>>

\* bot.py download_video (27-61): what it returns or that it raised, and the
\* files it leaves.  The cookie file is written first and never removed.
bot_download_video(d) ==
    LET d1 == IF platform = "instagram" /\ hasCookies
              THEN Put(d, BotCookiePath, 1, "bot") ELSE d
        failed == {d1} \cup {Put(d1, BotVideoPart, s, "bot") : s \in PartialSizes}
        raised(d2, tr) == [file |-> "none", raised |-> TRUE, d |-> d2, tried |-> tr]
        fallback(d2) ==
            IF platform = "tiktok" /\ request.api
            THEN {[file |-> BotUuidPath, raised |-> FALSE, d |-> d2,
                   tried |-> {"package", "api"}], raised(d2, {"package", "api"})}
            ELSE IF platform = "youtube"
            THEN {[file |-> BotUuidPath, raised |-> FALSE,
                   d |-> Put(d2, BotUuidPath, s, "bot"),
                   tried |-> {"package", "pytube"}] : s \in DownloadSizes}
                     \cup {raised(d2, {"package", "pytube"})}
            ELSE {raised(d2, {"package"})}
    IN  {[file |-> BotVideoPath, raised |-> FALSE, d |-> Put(d1, BotVideoPath, s, "bot"),
          tried |-> {"package"}] : s \in DownloadSizes}
          \cup UNION {fallback(d2) : d2 \in failed}

\* bot.py handle_link (66-71): the URL is accepted, "Downloading..." is sent
handle_link ==
    /\ entry = "bot"
    /\ request.pc = "start"
    /\ request' = [request EXCEPT !.pc = "downloading"]
    /\ UNCHANGED <<trackerVars, webVars, classifierVars>>
    /\ UNCHANGED <<entry, platform, hasCookies, task, disk, racer>>

\* bot.py handle_link (72-76, 79-80): download_video, then the file is opened
\* and send_video awaited; an exception is reported as "Failed".
BotDownload ==
    /\ entry = "bot"
    /\ request.pc = "downloading"
    /\ \E o \in bot_download_video(disk) :
          /\ disk' = o.d
          /\ IF ~o.raised /\ Exists(o.d, o.file)
             THEN request' = [request EXCEPT !.pc = "sending", !.tried = o.tried,
                                             !.result = [file |-> o.file, meta |-> "bot"]]
             ELSE request' = [Report(request, "failed", o.d) EXCEPT
                                  !.pc = "closed", !.tried = o.tried,
                                  !.result = IF o.raised THEN NoResult
                                             ELSE [file |-> o.file, meta |-> "bot"]]
    /\ UNCHANGED <<trackerVars, webVars, classifierVars>>
    /\ UNCHANGED <<entry, platform, hasCookies, task, racer>>

\* bot.py handle_link (76-80): send_video returned or raised
BotSent ==
    /\ entry = "bot"
    /\ request.pc = "sending"
    /\ \/ /\ disk' = Unlink(disk, request.result.file)
          /\ request' = [request EXCEPT !.pc = "closed", !.reported = "done"]
       \/ /\ disk' = disk
          /\ request' = [Report(request, "failed", disk) EXCEPT !.pc = "closed"]
    /\ UNCHANGED <<trackerVars, webVars, classifierVars>>
    /\ UNCHANGED <<entry, platform, hasCookies, task, racer>>

\* A request handled by handle_quality_selection of main.py, for a chat that
\* has joined, sent its URL and picked a video quality or "audio", or by
\* handle_link of bot.py; api: bot.py has a TIKTOK_API.
InitReq ==
    /\ entry \in {"quality", "bot"}
    /\ platform \in (IF entry = "quality" THEN {"youtube", "tiktok"}
                     ELSE {"youtube", "tiktok", "instagram"})
    /\ hasCookies \in BOOLEAN
    /\ task = [k \in Kinds |-> OffTask]
    /\ disk = EmptyDisk
    /\ racer = NewRacer("awaiting")
    /\ \E a \in (IF entry = "bot" THEN BOOLEAN ELSE {FALSE}),
          quality_type \in (IF entry = "quality" THEN {"720p", "audio"} ELSE {"none"}) :
          request = [NoRequest EXCEPT !.pc = "start", !.api = a, !.tier = quality_type]
    /\ InitTracker
    /\ download_progress = NewProgress
    /\ webhook = NoWebhooks
    /\ user_states = (IF entry = "quality"
                      THEN Pending(Verified(Started(NoUsers, TheChat), TheChat), TheChat, "url")
                      ELSE NoUsers)
    /\ download_stats = NewStats
    /\ url = <<>>
    /\ tags = <<>>

NextReq ==
    \/ handle_quality_selection
    \/ download_video_with_quality
    \/ try_api
    \/ try_cookies
    \/ \E k \in {"api", "cookies"} : ResumeUltra(k)
    \/ ResumeLevel("api")
    \/ ResumeGet("api")
    \/ ResumeHead("api")
    \/ ResumeStream("api")
    \/ ResumeChunk("api")
    \/ Priority2Returned
    \/ Priority3Returned
    \/ SendVideo
    \/ __aexit__
    \/ ReportError
    \/ handle_link
    \/ BotDownload
    \/ BotSent

SpecReq == InitReq /\ [][NextReq]_vars

\* One request's tracker with a transfer reporting its bytes and another
\* step reporting compression stages.
InitProgress ==
    /\ entry = "progress"
    /\ platform = "tiktok"
    /\ hasCookies = FALSE
    /\ task = [k \in Kinds |-> OffTask]
    /\ disk = EmptyDisk
    /\ racer = NewRacer("awaiting")
    /\ request = NoRequest
    /\ InitTracker
    /\ InitOthers

NextProgress ==
    \/ Tick
    \/ WriteChunk
    \/ ReportCompression
    \/ \E p \in Producers : EditReturned(p)
    \/ \E p \in Producers : EditRaised(p)

SpecProgress == InitProgress /\ [][NextProgress]_vars

\* ------------------------------------------------- the speed of a transfer
\* No more reports than this get past the throttle in one transfer.
MaxReports == 6
\* The transfer ends at this size.
MaxTransfer == 8

\* _download_direct_url_enhanced (2125-2130) with update_progress (844-916):
\* dt after the last chunk one more chunk is written and update_progress is
\* called and returns; the edit of the message goes through or raises.
\* emitted: the calls that got past the throttle, with the sample each added
\* and the speed in its text.
ReportProgress ==
    /\ entry = "speed"
    /\ Len(emitted) < MaxReports
    /\ producer["download"].downloaded < MaxTransfer
    /\ \E c \in ChunkSizes, dt \in {0, THROTTLE}, ok \in BOOLEAN :
          LET now == clock + dt
              current == Downloaded(producer["download"].downloaded, c)
              tr == Sampled(tracker, now, current)
          IN  /\ clock' = now
              /\ producer' = [producer EXCEPT !["download"].downloaded = current]
              /\ IF now - tracker.last_update < THROTTLE
                 THEN UNCHANGED <<tracker, emitted>>
                 ELSE /\ tracker' = IF ok THEN [tr EXCEPT !.last_update = now,
                                                          !.last_bytes = current]
                                    ELSE [tr EXCEPT !.errors = @ + 1]
                      /\ emitted' = Append(emitted,
                                        [sample |-> bytes_per_sec(tracker, now, current),
                                         speed |-> FormatSpeed(avg_speed(tr.speed_samples)),
                                         shown |-> ok])
    /\ UNCHANGED <<downloadVars, webVars, classifierVars>>

InitSpeed ==
    /\ entry = "speed"
    /\ platform = "tiktok"
    /\ hasCookies = FALSE
    /\ task = [k \in Kinds |-> OffTask]
    /\ disk = EmptyDisk
    /\ racer = NewRacer("awaiting")
    /\ request = NoRequest
    /\ InitTracker
    /\ InitOthers

NextSpeed == ReportProgress

SpecSpeed == InitSpeed /\ [][NextSpeed]_vars

\* ------------------------------------------------------ the web interface
\* download_video_enhanced (1622-1699): the one package download it makes and
\* what it returns.  Its DummyProgressTracker has no
\* update_compression_progress: the call raises AttributeError, which
\* _compress_video_ultra_fast catches (the downloaded file is kept) and which
\* _download_with_enhanced_compression turns into "Download failed".
\* What the package download of download_video_enhanced returns for the file
\* f it found: _download_youtube_quality (1444-1465) gives up over 2 GB and
\* else returns the file, compressed or not; _download_with_enhanced_compression
\* (1573-1613) returns a file within the sending budget and raises over it.
EnhancedFile(f, d) ==
    IF platform = "youtube"
    THEN IF Size(d, f) > MAX_VIDEO_SIZE THEN "none" ELSE f
    ELSE IF Size(d, f) > MAX_FILE_SIZE THEN "none" ELSE f

\* download_video_enhanced (1658-1685): the result for what the package
\* download returned
EnhancedResult(f, d) ==
    LET file_path == EnhancedFile(f, d)
    IN  IF file_path # "none" /\ Exists(d, file_path)
        THEN IF Size(d, file_path) > MAX_VIDEO_SIZE
             THEN [success |-> FALSE, file |-> "none", d |-> Unlink(d, file_path)]
             ELSE [success |-> TRUE, file |-> file_path, d |-> d]
        ELSE [success |-> FALSE, file |-> "none", d |-> d]

download_video_enhanced(d) ==
    LET d1 == IF platform = "youtube" /\ hasCookies
              THEN Put(d, YoutubeCookiePath, 1, "web") ELSE d
    IN  {[success |-> FALSE, file |-> "none", d |-> d2] :
            d2 \in YtDlpFailed("web", d1, TitlePart)}
        \cup UNION {{EnhancedResult(f, d2) : f \in GlobMedia(d2)} :
                       d2 \in YtDlpWrote("web", d1, TitlePath)}

\* process_web_download (1107-1119): Mark as completed
WebCompleted(rec) ==
    [rec EXCEPT !.progress = 100, !.status = "Download complete!", !.completed = TRUE,
                !.result = "Successfully downloaded", !.writes = Append(@, 100)]
\* Faulty variant: the handler of the exception logs it and leaves the record.
WebFailedLogged(rec) == rec

\* process_web_download (1123-1130): except Exception
WebFailed(rec) ==
    [rec EXCEPT !.progress = 0, !.status = "Failed", !.completed = TRUE,
                !.error = "Download failed", !.writes = Append(@, 0)]

\* Faulty variant: a failed upload to the channel is recorded as the failure
\* of the download.
UploadFailedRecorded(rec) == WebFailed(rec)

\* process_web_download (1102-1103): except Exception: logger.warning
UploadFailed(rec) == rec

WebStep(pc) == entry = "web" /\ request.pc = pc

\* process_web_download (1003-1009): the first status; the downloader is
\* entered (temp_dir is made) and get_platform awaited.
WebAnalyze ==
    /\ WebStep("start")
    /\ request' = [request EXCEPT !.pc = "info", !.tempdir = TRUE]
    /\ download_progress' =
          Stage(download_progress, 5, "Analyzing URL...")
    /\ UNCHANGED <<entry, platform, hasCookies, task, disk, racer>>
    /\ UNCHANGED <<trackerVars, classifierVars, webhook, sessionVars>>

\* process_web_download (1011-1023): _get_video_quality_info gives the title,
\* gives none, or raises.
WebInfo ==
    /\ WebStep("info")
    /\ request' = [request EXCEPT !.pc = "download"]
    /\ \E t \in {"title", "Unknown Title", "Video Download"} :
          download_progress' =
              Stage([download_progress EXCEPT !.title = t], 15,
                    "Getting video information...")
    /\ UNCHANGED <<entry, platform, hasCookies, task, disk, racer>>
    /\ UNCHANGED <<trackerVars, classifierVars, webhook, sessionVars>>

\* process_web_download (1056-1121): download_video_enhanced is awaited; with
\* its result either the upload starts, or the record is marked completed (no
\* channel), or the exception is raised that leaves the "async with".
process_web_download ==
    /\ WebStep("download")
    /\ \E o \in download_video_enhanced(disk) :
          /\ disk' = o.d
          /\ IF ~o.success
             THEN /\ request' = [request EXCEPT !.pc = "raising", !.tried = {"package"}]
                  /\ download_progress' =
                        Stage(download_progress, 25, "Downloading")
             ELSE IF request.channel
             THEN /\ request' = [request EXCEPT !.pc = "sending", !.tried = {"package"},
                                    !.result = [file |-> o.file, meta |-> "web"]]
                  /\ download_progress' =
                        Stage(Stage(download_progress, 25, "Downloading"), 80, "Uploading")
             ELSE /\ request' = [request EXCEPT !.pc = "exiting", !.tried = {"package"},
                                    !.result = [file |-> o.file, meta |-> "web"]]
                  /\ download_progress' =
                        WebCompleted(Stage(Stage(download_progress, 25, "Downloading"),
                                           80, "Uploading"))
    /\ UNCHANGED <<entry, platform, hasCookies, task, racer>>
    /\ UNCHANGED <<trackerVars, classifierVars, webhook, sessionVars>>

\* process_web_download (1088-1119): send_video returned (the file is
\* unlinked; delivered: the channel has the video) or raised; either way the
\* record is marked completed.
WebSent ==
    /\ WebStep("sending")
    /\ \/ /\ disk' = Unlink(disk, request.result.file)
          /\ download_progress' = WebCompleted(download_progress)
          /\ request' = [request EXCEPT !.pc = "exiting", !.delivered = TRUE]
       \/ /\ disk' = disk
          /\ download_progress' = WebCompleted(UploadFailed(download_progress))
          /\ request' = [request EXCEPT !.pc = "exiting"]
    /\ UNCHANGED <<entry, platform, hasCookies, task, racer>>
    /\ UNCHANGED <<trackerVars, classifierVars, webhook, sessionVars>>

\* __aexit__ (1144-1153) at the end of the "async with" of process_web_download
WebAexit ==
    /\ entry = "web"
    /\ request.pc \in {"exiting", "raising"}
    /\ disk' = rmtree(disk)
    /\ request' = [request EXCEPT !.tempdir = FALSE,
                                  !.pc = IF request.pc = "raising" THEN "except" ELSE "closed"]
    /\ UNCHANGED <<entry, platform, hasCookies, task, racer>>
    /\ UNCHANGED <<trackerVars, webVars, classifierVars>>

\* process_web_download (1123-1130): except Exception: the record is failed
WebExcept ==
    /\ WebStep("except")
    /\ download_progress' = WebFailed(download_progress)
    /\ request' = [Report(request, "failed", disk) EXCEPT !.pc = "closed"]
    /\ UNCHANGED <<entry, platform, hasCookies, task, disk, racer>>
    /\ UNCHANGED <<trackerVars, classifierVars, webhook, sessionVars>>

\* get_progress (773-780): the web page reads the record
get_progress ==
    /\ entry = "web"
    /\ UNCHANGED vars

\* A download started by web_download; channel: Config.TELEGRAM_CHANNEL_ID and
\* the bot instance are there.
InitWeb ==
    /\ entry = "web"
    /\ platform \in {"youtube", "tiktok"}
    /\ hasCookies \in BOOLEAN
    /\ task = [k \in Kinds |-> OffTask]
    /\ disk = EmptyDisk
    /\ racer = NewRacer("awaiting")
    /\ \E c \in BOOLEAN : request = [NoRequest EXCEPT !.pc = "start", !.channel = c]
    /\ InitTracker
    /\ InitOthers

NextWeb ==
    \/ WebAnalyze
    \/ WebInfo
    \/ process_web_download
    \/ WebSent
    \/ WebAexit
    \/ WebExcept
    \/ get_progress

SpecWeb == InitWeb /\ [][NextWeb]_vars

\* The steps of the task of process_web_download
WebTask ==
    \/ WebAnalyze
    \/ WebInfo
    \/ process_web_download
    \/ WebSent
    \/ WebAexit
    \/ WebExcept

\* The event loop runs the task it has started whenever the task can go on,
\* and every external call returns, raises or times out.
SpecWebLive == SpecWeb /\ WF_vars(WebTask)

\* ---------------------------------------------------------- the classifier
\* A URL string is a sequence of pieces of text; no pattern of get_platform
\* lies across two pieces.
MaxUrlLen == 2
\* No more calls of get_platform than this in one run.
MaxCalls == 2
UrlPieces ==
    {"youtube.com", "YouTube.COM", "tiktok.com", "netflix.com", "clip.mp4", "CLIP.MP4",
     "live.m3u8", "cdn.foo", " "}
\* The tags get_platform returns
PlatformTags ==
    {"youtube", "twitter", "facebook", "tiktok", "instagram", "m3u8", "direct", "unknown"}

\* Faulty variant: the URL is matched as it was typed.
LowerMissing(a) == a

\* str.lower(), piece by piece
Lower(a) ==
    CASE a = "YouTube.COM" -> "youtube.com"
      [] a = "CLIP.MP4" -> "clip.mp4"
      [] OTHER -> a
\* The same piece typed in capitals
Upper(a) ==
    CASE a = "youtube.com" -> "YouTube.COM"
      [] a = "clip.mp4" -> "CLIP.MP4"
      [] OTHER -> a
lower(u) == [i \in 1..Len(u) |-> Lower(u[i])]

\* str.strip(): leading and trailing whitespace removed
RECURSIVE strip(_)
strip(u) ==
    IF u = <<>> THEN u
    ELSE IF Head(u) = " " THEN strip(Tail(u))
    ELSE IF u[Len(u)] = " " THEN strip(SubSeq(u, 1, Len(u) - 1))
    ELSE u

\* The patterns of get_platform that occur in a piece of text ("in" is
\* case-sensitive: none occurs in a piece typed in capitals).
PatternsIn(a) ==
    CASE a = "youtube.com" -> {"youtube.com"}
      [] a = "tiktok.com" -> {"tiktok.com"}
      [] a = "netflix.com" -> {"x.com"}
      [] a = "clip.mp4" -> {".mp4"}
      [] a = "live.m3u8" -> {".m3u8", "m3u8"}
      [] OTHER -> {}
\* any(domain in url_lower for domain in [...])
AnyIn(ps, u) == \E i \in 1..Len(u) : PatternsIn(u[i]) \cap ps # {}
\* url_lower.endswith('.m3u8')
EndsWithM3u8(u) == u # <<>> /\ u[Len(u)] = "live.m3u8"

\* Faulty variant: a URL that matches nothing is taken for a direct link.
get_platformDefaultDirect(u) ==
    LET url_lower == strip(lower(u))
    IN  IF AnyIn({"youtube.com", "youtu.be", "youtube-nocookie.com"}, url_lower)
        THEN "youtube"
        ELSE IF AnyIn({"tiktok.com", "vm.tiktok.com", "m.tiktok.com"}, url_lower)
        THEN "tiktok"
        ELSE "direct"

\* get_platform (1155-1176)
get_platform(u) ==
    LET url_lower == strip(lower(u))
    IN  IF AnyIn({"youtube.com", "youtu.be", "youtube-nocookie.com"}, url_lower)
        THEN "youtube"
        ELSE IF AnyIn({"twitter.com", "x.com", "mobile.twitter.com", "mobile.x.com"}, url_lower)
        THEN "twitter"
        ELSE IF AnyIn({"facebook.com", "fb.com", "fb.watch", "m.facebook.com"}, url_lower)
        THEN "facebook"
        ELSE IF AnyIn({"tiktok.com", "vm.tiktok.com", "m.tiktok.com"}, url_lower)
        THEN "tiktok"
        ELSE IF AnyIn({"instagram.com", "instagr.am"}, url_lower)
        THEN "instagram"
        ELSE IF EndsWithM3u8(url_lower) \/ AnyIn({"m3u8"}, url_lower)
        THEN "m3u8"
        ELSE IF AnyIn({".mp4", ".mkv", ".avi", ".webm", ".mov"}, url_lower)
        THEN "direct"
        ELSE "unknown"

\* The URL strings that differ from u in the case of one piece or in one
\* surrounding blank.
Respellings(u) ==
    {[u EXCEPT ![i] = Upper(u[i])] : i \in 1..Len(u)}
        \cup {[u EXCEPT ![i] = Lower(u[i])] : i \in 1..Len(u)}
        \cup (IF Len(u) < MaxUrlLen + 1 THEN {<<" ">> \o u, u \o <<" ">>} ELSE {})

\* A call of get_platform on the URL
Classify ==
    /\ entry = "classify"
    /\ Len(tags) < MaxCalls
    /\ tags' = Append(tags, [url |-> url, tag |-> get_platform(url)])
    /\ UNCHANGED url
    /\ UNCHANGED <<downloadVars, trackerVars, webVars>>

\* The same URL is typed again with other capitals or blanks around it.
Respell ==
    /\ entry = "classify"
    /\ \E v \in Respellings(url) \ {url} : url' = v
    /\ UNCHANGED tags
    /\ UNCHANGED <<downloadVars, trackerVars, webVars>>

UrlStrings == UNION {[1..n -> UrlPieces] : n \in 0..MaxUrlLen}

InitClassify ==
    /\ entry = "classify"
    /\ platform = "unknown"
    /\ hasCookies = FALSE
    /\ task = [k \in Kinds |-> OffTask]
    /\ disk = EmptyDisk
    /\ racer = NewRacer("awaiting")
    /\ request = NoRequest
    /\ InitTracker
    /\ download_progress = NewProgress
    /\ webhook = NoWebhooks
    /\ user_states = NoUsers
    /\ download_stats = NewStats
    /\ url \in UrlStrings
    /\ tags = <<>>

NextClassify ==
    \/ Classify
    \/ Respell

SpecClassify == InitClassify /\ [][NextClassify]_vars

\* ------------------------------------------------- the quality selection
\* The quality levels of _get_video_quality_info, best first
Ladder == <<"4K", "1440p", "1080p", "720p", "480p", "360p">>
Levels == {Ladder[i] : i \in 1..Len(Ladder)}

\* _get_video_quality_info (1178-1285): None, or the quality levels found
\* among the formats, without duplicates and best first (info['video_formats'])
video_formats(found) == SelectSeq(Ladder, LAMBDA l : l \in found)

\* One alternative of a yt-dlp format selector: what is selected, under which
\* height and container filters.
Alt(what, height, ext) == [what |-> what, height |-> height, ext |-> ext]
\* An alternative without filter: best, worst
Unconstrained(a) == a.what \in {"best", "worst"} /\ a.height = "any" /\ a.ext = "any"
\* A selector whose last alternative takes whatever there is
BestEffort(sel) == sel # <<>> /\ Unconstrained(sel[Len(sel)])

\* quality_map of handle_quality_selection (3040-3050)
quality_map(tier) ==
    IF tier = "audio"
    THEN <<Alt("bestaudio", "any", "m4a"), Alt("bestaudio", "any", "mp3"),
           Alt("bestaudio", "any", "any"), Alt("best", "any", "any")>>
    ELSE <<Alt("best", tier, "mp4"), Alt("bestvideo+bestaudio", tier, "mp4"),
           Alt("best", tier, "any")>>
\* The --format of download_with_cookies (1857)
CookieSelector ==
    <<Alt("best", "4K", "any"), Alt("best", "1440p", "any"), Alt("best", "1080p", "any"),
      Alt("best", "720p", "any"), Alt("best", "any", "any")>>
\* download_with_api: the video the API names, without any selector
ApiSelector == <<Alt("best", "any", "any")>>

NegotiateStep(pc) == entry = "negotiate" /\ request.pc = pc

\* @retry(stop=stop_after_attempt(3), ...) on _get_video_quality_info
stop_after_attempt == 3
\* How the yt-dlp --dump-json subprocess of _get_video_quality_info can end:
\* exit 0 with the JSON of the formats, exit 0 with no JSON line that has
\* formats, a non-zero exit, the 60 s timeout of wait_for, no subprocess at
\* all (create_subprocess_exec raises).
Endings == {"formats", "no_formats", "exit_nonzero", "timeout", "oserror"}
\* The failures another invocation could get over
Transient == {"exit_nonzero", "timeout", "oserror"}

\* The body of _get_video_quality_info (1180-1285): what it returns for an
\* ending and whether it raises; "except Exception" (1282-1283) catches what
\* the subprocess calls raise and None is returned.
quality_info_body(ending, found) ==
    IF ending = "formats"
    THEN [raised |-> FALSE, value |-> [info |-> TRUE, video_formats |-> video_formats(found)]]
    ELSE [raised |-> FALSE, value |-> [info |-> FALSE, video_formats |-> <<>>]]

\* _get_video_quality_info under its retry decorator (1178-1285): one
\* invocation of the subprocess; the decorator calls the body again when it
\* raised and fewer than stop_after_attempt calls were made.
_get_video_quality_info ==
    /\ NegotiateStep("url")
    /\ \E ending \in Endings, found \in SUBSET Levels :
          LET r == quality_info_body(ending, found)
              n == request.invocations + 1
          IN  request' = [request EXCEPT
                             !.invocations = n,
                             !.ended = ending,
                             !.quality_info = r.value,
                             !.pc = IF r.raised /\ n < stop_after_attempt
                                    THEN "url" ELSE "introspected"]
    /\ UNCHANGED <<trackerVars, webVars, classifierVars>>
    /\ UNCHANGED <<entry, platform, hasCookies, task, disk, racer>>

\* handle_url (2888-2945): the buttons offered, from the introspection or
\* from the standard list, and the audio button after them.
handle_url ==
    /\ NegotiateStep("introspected")
    /\ LET quality_info == request.quality_info
           available_qualities ==
               IF ~quality_info.info \/ quality_info.video_formats = <<>> THEN Ladder
               ELSE quality_info.video_formats
       IN  request' = [request EXCEPT !.pc = "offered",
                                      !.offered = available_qualities \o <<"audio">>]
    /\ UNCHANGED <<trackerVars, webVars, classifierVars>>
    /\ UNCHANGED <<entry, platform, hasCookies, task, disk, racer>>

\* handle_quality_selection (3012-3050): the button pressed gives the tier
\* and its selector.
QualityChosen ==
    /\ NegotiateStep("offered")
    /\ \E i \in 1..Len(request.offered) :
          request' = [request EXCEPT !.pc = "priority1", !.tier = request.offered[i]]
    /\ UNCHANGED <<trackerVars, webVars, classifierVars>>
    /\ UNCHANGED <<entry, platform, hasCookies, task, disk, racer>>

\* One priority of download_video_with_quality ran yt-dlp with selector sel
\* (or ran nothing when sel is empty) and gave a file or not.
Attempted(sel, next) ==
    \E ok \in (IF sel = <<>> THEN {FALSE} ELSE BOOLEAN) :
        request' = [request EXCEPT
                       !.pc = IF ok THEN "upload" ELSE next,
                       !.attempted = IF sel = <<>> THEN @ ELSE Append(@, sel)]

\* download_video_with_quality, Priority 1 (2378-2396):
\* _download_with_ytdlp_quality with the selector of the tier
Priority1Attempt ==
    /\ NegotiateStep("priority1")
    /\ Attempted(quality_map(request.tier), "priority2")
    /\ UNCHANGED <<trackerVars, webVars, classifierVars>>
    /\ UNCHANGED <<entry, platform, hasCookies, task, disk, racer>>

\* download_video_with_quality, Priority 2 (2398-2415): download_with_api
\* returns (None, None) at once for a platform without API (1701-1787).
Priority2Attempt ==
    /\ NegotiateStep("priority2")
    /\ Attempted(IF platform = "tiktok" THEN ApiSelector ELSE <<>>, "priority3")
    /\ UNCHANGED <<trackerVars, webVars, classifierVars>>
    /\ UNCHANGED <<entry, platform, hasCookies, task, disk, racer>>

\* download_video_with_quality, Priority 3 (2417-2439): download_with_cookies
\* returns (None, None) at once when no cookie is configured (1841-1843).
Priority3Attempt ==
    /\ NegotiateStep("priority3")
    /\ Attempted(IF hasCookies THEN CookieSelector ELSE <<>>, "exhausted")
    /\ UNCHANGED <<trackerVars, webVars, classifierVars>>
    /\ UNCHANGED <<entry, platform, hasCookies, task, disk, racer>>

InitNegotiate ==
    /\ entry = "negotiate"
    /\ platform \in {"youtube", "tiktok"}
    /\ hasCookies \in BOOLEAN
    /\ task = [k \in Kinds |-> OffTask]
    /\ disk = EmptyDisk
    /\ racer = NewRacer("awaiting")
    /\ request = [NoRequest EXCEPT !.pc = "url"]
    /\ InitTracker
    /\ InitOthers

NextNegotiate ==
    \/ _get_video_quality_info
    \/ handle_url
    \/ QualityChosen
    \/ Priority1Attempt
    \/ Priority2Attempt
    \/ Priority3Attempt

SpecNegotiate == InitNegotiate /\ [][NextNegotiate]_vars

\* ------------------------------------------------ the formats of a video
\* No more formats than this in the JSON of one video.
MaxFormats == 6
\* The heights the formats of a video have: one under every level, one at
\* the floor of each level, and a second one of the best level.
Heights == {240, 360, 480, 720, 1080, 1440, 2160, 4320}
\* if len(unique_video_formats) >= 6: break
QualityCap == 6

\* _get_video_quality_info (1224-1236): the quality level of a height
quality_level(height) ==
    IF height >= 2160 THEN "4K"
    ELSE IF height >= 1440 THEN "1440p"
    ELSE IF height >= 1080 THEN "1080p"
    ELSE IF height >= 720 THEN "720p"
    ELSE IF height >= 480 THEN "480p"
    ELSE IF height >= 360 THEN "360p"
    ELSE "None"

\* One entry of info['formats'] that has a height and a video codec
Fmt(format_id, height) ==
    [format_id |-> format_id, height |-> height, quality_level |-> quality_level(height)]

\* The loop over info['formats'] (1217-1241): the formats with a quality
\* level, in the order of the JSON
Levelled(formats) == SelectSeq(formats, LAMBDA fmt : fmt.quality_level # "None")

\* fmt put into a list sorted by height, best first, behind its equals
RECURSIVE Insert(_, _)
Insert(sorted, fmt) ==
    IF sorted = <<>> THEN <<fmt>>
    ELSE IF Head(sorted).height >= fmt.height
         THEN <<Head(sorted)>> \o Insert(Tail(sorted), fmt)
         ELSE <<fmt>> \o sorted

\* Faulty variant: the formats are taken in the order of the JSON.
RECURSIVE SortedByHeightUnsorted(_)
SortedByHeightUnsorted(formats) == formats

\* sorted(video_formats, key=lambda x: x.get('height', 0), reverse=True): a
\* stable sort, formats of one height keep their order
RECURSIVE SortedByHeight(_)
SortedByHeight(formats) ==
    IF formats = <<>> THEN <<>>
    ELSE Insert(SortedByHeight(SubSeq(formats, 1, Len(formats) - 1)),
                formats[Len(formats)])

\* The loop of 1260-1266 from rest on: a format whose level was not seen is
\* kept, and the loop breaks at QualityCap formats kept.
RECURSIVE Unique(_, _, _)
Unique(rest, unique, seen_qualities) ==
    IF rest = <<>> THEN unique
    ELSE IF Head(rest).quality_level \notin seen_qualities
         THEN IF Len(unique) + 1 >= QualityCap
              THEN Append(unique, Head(rest))
              ELSE Unique(Tail(rest), Append(unique, Head(rest)),
                          seen_qualities \cup {Head(rest).quality_level})
         ELSE Unique(Tail(rest), unique, seen_qualities)

\* info['video_formats'] (1217-1268) for the formats of the JSON
unique_video_formats(formats) == Unique(SortedByHeight(Levelled(formats)), <<>>, {})

\* The JSON of the video lists one more format, of height h; format_id is
\* its place in the list.
ListFormat(h) ==
    /\ entry = "formats"
    /\ request.pc = "json"
    /\ Len(request.formats) < MaxFormats
    /\ request' = [request EXCEPT !.formats = Append(@, Fmt(Len(@) + 1, h))]
    /\ UNCHANGED <<trackerVars, webVars, classifierVars>>
    /\ UNCHANGED <<entry, platform, hasCookies, task, disk, racer>>

\* _get_video_quality_info (1217-1270): the JSON of the video is read and
\* info['video_formats'] is made of its formats.
ParseFormats ==
    /\ entry = "formats"
    /\ request.pc = "json"
    /\ LET unique == unique_video_formats(request.formats)
       IN  request' = [request EXCEPT
                          !.pc = "parsed",
                          !.unique_video_formats = unique,
                          !.quality_info =
                              [info |-> TRUE,
                               video_formats |->
                                   [i \in 1..Len(unique) |-> unique[i].quality_level]]]
    /\ UNCHANGED <<trackerVars, webVars, classifierVars>>
    /\ UNCHANGED <<entry, platform, hasCookies, task, disk, racer>>

InitFormats ==
    /\ entry = "formats"
    /\ platform = "youtube"
    /\ hasCookies = FALSE
    /\ task = [k \in Kinds |-> OffTask]
    /\ disk = EmptyDisk
    /\ racer = NewRacer("awaiting")
    /\ request = [NoRequest EXCEPT !.pc = "json"]
    /\ InitTracker
    /\ InitOthers

NextFormats ==
    \/ \E h \in Heights : ListFormat(h)
    \/ ParseFormats

SpecFormats == InitFormats /\ [][NextFormats]_vars

\* ---------------------------------------------------- the Flask server
\* ThreadPoolExecutor(max_workers=6) of _compress_video_ultra_fast and
\* _compress_video_aggressive: a new pool in every call
max_workers == 6

\* webhook (3475-3497): app.run serves every request in a thread of its own;
\* the thread makes a new event loop and runs process_update in it.
webhook_received(r) ==
    /\ entry = "server"
    /\ webhook[r] = "idle"
    /\ webhook' = [webhook EXCEPT ![r] = "handling"]
    /\ UNCHANGED <<download_progress, sessionVars>>
    /\ UNCHANGED <<downloadVars, trackerVars, classifierVars>>

\* _compress_video_ultra_fast (1969-1972), _compress_video_aggressive
\* (2060-2063): the handler's loop makes a pool, submits the one ffmpeg run to
\* it and blocks in future.result until it is through.
Submit(r) ==
    /\ entry = "server"
    /\ webhook[r] = "handling"
    /\ webhook' = [webhook EXCEPT ![r] = "ffmpeg"]
    /\ UNCHANGED <<download_progress, sessionVars>>
    /\ UNCHANGED <<downloadVars, trackerVars, classifierVars>>

\* ffmpeg exits: the pool is shut down and the handler goes on.
FfmpegExited(r) ==
    /\ entry = "server"
    /\ webhook[r] = "ffmpeg"
    /\ webhook' = [webhook EXCEPT ![r] = "handling"]
    /\ UNCHANGED <<download_progress, sessionVars>>
    /\ UNCHANGED <<downloadVars, trackerVars, classifierVars>>

\* webhook (3497): process_update is through, {"status": "ok"} is answered.
Answered(r) ==
    /\ entry = "server"
    /\ webhook[r] = "handling"
    /\ webhook' = [webhook EXCEPT ![r] = "answered"]
    /\ UNCHANGED <<download_progress, sessionVars>>
    /\ UNCHANGED <<downloadVars, trackerVars, classifierVars>>

InitServer ==
    /\ entry = "server"
    /\ platform = "unknown"
    /\ hasCookies = FALSE
    /\ task = [k \in Kinds |-> OffTask]
    /\ disk = EmptyDisk
    /\ racer = NewRacer("awaiting")
    /\ request = NoRequest
    /\ InitTracker
    /\ InitOthers

NextServer ==
    \E r \in 1..MaxRequests :
        \/ webhook_received(r)
        \/ Submit(r)
        \/ FfmpegExited(r)
        \/ Answered(r)

SpecServer == InitServer /\ [][NextServer]_vars

\* ================================================================ claims
RaceReturned == entry = "race" /\ racer.pc = "returned"
RaceWon == RaceReturned /\ racer.returned.file # "none"
RaceLost == RaceReturned /\ racer.returned.file = "none"

\* C1: download_video runs the package, API and cookie executors as three
\* tasks created together (the loop looks at no result before each has had its
\* first run); what it returns with a file is the result of the first task, in
\* completion order, that completed with a file; and once it has returned
\* that result every sibling task is finished or has had cancel() called.
C1_FirstSuccessWins ==
    /\ (entry = "race" /\ racer.seen > 0) => \A k \in RaceSet : task[k].pc # "start"
    /\ RaceWon =>
          /\ \E i \in 1..Len(racer.order) :
                /\ task[racer.order[i]].result = racer.returned
                /\ \A j \in 1..(i - 1) : task[racer.order[j]].result.file = "none"
          /\ \A k \in RaceSet : Finished(task[k]) \/ task[k].cancelReq

\* C1 witness: a task that completed first without a file, a later one whose
\* file is returned, and an unfinished sibling that got cancel().
C1_Witness ==
    /\ RaceWon
    /\ Len(racer.order) >= 2
    /\ task[racer.order[1]].result.file = "none"
    /\ \E k \in RaceSet : task[k].cancelReq

\* C2: the race ends either with the result of exactly one executor (the
\* returned (file, metadata) is the result of one task and of no other) or
\* with (None, None) after all three executors completed without a file;
\* nothing is returned while the race is running.
C2_ExactlyOneOutcome ==
    /\ (entry = "race" /\ racer.pc = "racing") => racer.returned = NoResult
    /\ RaceReturned =>
          \/ /\ racer.returned.file # "none"
             /\ Cardinality({k \in RaceSet : task[k].pc = "done"
                                             /\ task[k].result = racer.returned}) = 1
          \/ /\ racer.returned = NoResult
             /\ \A k \in RaceSet : task[k].pc = "done" /\ task[k].result = NoResult

\* C2 witness: two executors completed with a file and one result was returned.
C2_Witness ==
    /\ RaceWon
    /\ Cardinality({k \in RaceSet : task[k].pc = "done" /\ task[k].result.file # "none"}) >= 2

C7_Original ==
    \A k \in RaceSet : task[k].cancelRaised => task[k].pc = "cancelled"

\* C3 as claimed: every file an executor returns as its successful result is
\* within Config.MAX_FILE_SIZE.
C3_Original ==
    \A k \in Kinds :
        (task[k].pc = "done" /\ task[k].result.file # "none")
        => Exists(disk, task[k].result.file)
           /\ Size(disk, task[k].result.file) <= MAX_FILE_SIZE

\* C8: an executor whose complete download is within the budget returns that
\* very file, still on disk with the size it had, and has run ffmpeg not once.
C8_NoOpBelowBudget ==
    \A k \in Kinds :
        (entry = "exec" /\ task[k].pc = "done" /\ task[k].fsize >= 0
           /\ task[k].fsize <= MAX_FILE_SIZE)
        => /\ task[k].result.file = task[k].file
           /\ task[k].calls = <<>>
           /\ Exists(disk, task[k].file)
           /\ Size(disk, task[k].file) = task[k].fsize

\* C8 witness: the direct executor returned a download that was within budget.
C8_Witness ==
    /\ entry = "exec"
    /\ racer.pc = "returned"
    /\ task["direct"].pc = "done"
    /\ task["direct"].fsize >= 0
    /\ task["direct"].fsize <= MAX_FILE_SIZE
    /\ racer.returned.file = task["direct"].file

\* C9 as claimed: the ladder runs 720p, 480p, 360p in that order, once each;
\* when it returns a level's output, that output is within budget, no later
\* level ran, and no output of an earlier level is left on disk.
C9_Original ==
    \A k \in Kinds :
        LET t == task[k]
            n == Len(t.calls)
        IN  (entry = "exec" /\ t.pc = "done" /\ t.lvl >= 1) =>
               /\ t.calls = SubSeq(compression_levels, 1, n)
               /\ (t.result.file = AggrPath(k, t.calls[n]) =>
                      /\ Size(disk, t.result.file) <= MAX_FILE_SIZE
                      /\ \A i \in 1..(n - 1) : ~Exists(disk, AggrPath(k, t.calls[i])))

\* C10 as claimed: when the pipeline of _download_with_enhanced_compression,
\* _download_direct_url_enhanced or download_m3u8_enhanced ran ffmpeg and
\* reports failure, no compressed output of that run is left on disk.
C10_Original ==
    \A k \in Kinds :
        (entry = "exec" /\ task[k].pc = "done" /\ task[k].calls # <<>>
           /\ Caller(k) \in {"enh", "direct", "m3u8"} /\ task[k].result = NoResult)
        => \A n \in CompressedNames : ~(Exists(disk, n) /\ disk[n].by = k)


\* C5 as claimed: when a handler tells the user that the request failed,
\* nothing the request created is left: no temp_dir, no file.
C5_Original ==
    request.reported \in {"failed", "error"} => request.left = {}

\* The API executor of the request downloaded a file, ran ffmpeg on it and
\* gave up because no output within the budget came of it.
BudgetUnattainable ==
    /\ entry = "quality"
    /\ task["api"].pc = "done"
    /\ task["api"].calls # <<>>
    /\ task["api"].result = NoResult

C12_Original ==
    \A i, j \in 1..Len(emitted) :
        i < j => emitted[j].at - emitted[i].at >= THROTTLE

\* C13: the bytesDone values of the progress updates that went through are
\* non-decreasing in the order in which they went through.
C13_BytesNonDecreasing ==
    \A i, j \in 1..Len(emitted) :
        (i < j /\ emitted[i].kind = "progress" /\ emitted[j].kind = "progress")
        => emitted[i].bytes <= emitted[j].bytes

\* C13 witness: two progress updates with different byte counts went through,
\* with a compression update between them.
C13_Witness ==
    \E i, j, m \in 1..Len(emitted) :
        /\ i < m /\ m < j
        /\ emitted[i].kind = "progress" /\ emitted[j].kind = "progress"
        /\ emitted[m].kind = "compression"
        /\ emitted[i].bytes < emitted[j].bytes

\* C14: an edit that raises never reaches the producer: in the step in which
\* the edit of a report operation raises, the operation returns normally (its
\* caller is idle again, with the bytes it had written), nothing is emitted
\* and only the warning is logged.
C14_EmissionFailureSwallowed ==
    [][\A p \in Producers :
          (producer[p].pc = "editing" /\ producer'[p] # producer[p]
             /\ tracker'.errors = tracker.errors + 1)
          => /\ producer'[p].pc = "idle"
             /\ producer'[p].downloaded = producer[p].downloaded
             /\ emitted' = emitted
             /\ tracker'.last_update = tracker.last_update]_vars

\* C14 witness: an edit raised and the transfer went on to its last byte.
C14_Witness ==
    /\ tracker.errors > 0
    /\ producer["download"].pc = "idle"
    /\ producer["download"].downloaded >= MaxBytes
    /\ Len(emitted) > 0

\* The strategies main.py has for a platform besides the package download.
Applicable ==
    (IF platform \in {"tiktok", "facebook", "twitter"} THEN {"api"} ELSE {})
        \cup (IF hasCookies THEN {"cookies"} ELSE {})

\* C15 as claimed: when the request is failed, every applicable strategy has
\* been tried for it.
C15_Original ==
    (entry = "web" /\ download_progress.error # "None") => Applicable \subseteq request.tried

\* C16: the record of a web download never holds both a result and an error,
\* and once it is completed no step changes it.
C16_OneTerminalOutcome ==
    [][/\ ~(download_progress'.result # "None" /\ download_progress'.error # "None")
       /\ (download_progress.completed => download_progress' = download_progress)]_vars

\* C16 witness: the upload to the channel failed, the record is completed
\* with a result, and the downloader has been left.
C16_Witness ==
    /\ entry = "web"
    /\ request.pc = "closed"
    /\ download_progress.completed
    /\ download_progress.result # "None"
    /\ request.channel
    /\ Exists(disk, TitlePath) = FALSE

\* The patterns get_platform looks for
AllPatterns ==
    {"youtube.com", "youtu.be", "youtube-nocookie.com", "twitter.com", "x.com",
     "mobile.twitter.com", "mobile.x.com", "facebook.com", "fb.com", "fb.watch",
     "m.facebook.com", "tiktok.com", "vm.tiktok.com", "m.tiktok.com", "instagram.com",
     "instagr.am", "m3u8", ".m3u8", ".mp4", ".mkv", ".avi", ".webm", ".mov"}
\* No pattern occurs in the URL, whatever its capitals.
NoPatternMatches(u) ==
    \A i \in 1..Len(u) : PatternsIn(Lower(u[i])) \cap AllPatterns = {}

\* C17: every call of get_platform returns a tag of the fixed set, and the
\* tag unknown for a URL in which no pattern occurs.
C17_Total ==
    \A i \in 1..Len(tags) :
        /\ tags[i].tag \in PlatformTags
        /\ NoPatternMatches(tags[i].url) => tags[i].tag = "unknown"

\* C17 witness: get_platform was called on a non-empty URL in which no
\* pattern occurs.
C17_Witness ==
    \E i \in 1..Len(tags) :
        /\ tags[i].url # <<>>
        /\ NoPatternMatches(tags[i].url)
        /\ \E j \in 1..Len(tags[i].url) : tags[i].url[j] # " "

\* C18: all calls of get_platform on one URL, however it is typed (capitals,
\* blanks around it), return the same tag.
C18_Deterministic ==
    \A i, j \in 1..Len(tags) : tags[i].tag = tags[j].tag

\* C18 witness: two calls on spellings that differ in capitals and in a
\* leading blank, for a URL a pattern occurs in.
C18_Witness ==
    \E i, j \in 1..Len(tags) :
        /\ tags[i].url # tags[j].url
        /\ lower(tags[i].url) # tags[i].url
        /\ tags[j].url # <<>> /\ Head(tags[j].url) = " "
        /\ tags[i].tag = "youtube"

\* C19 as stated: when every priority has been tried for the tier chosen,
\* the selectors offered and attempted are not empty and the last one
\* attempted ends with an alternative without constraint.
C19_Original ==
    (entry = "negotiate" /\ request.pc = "exhausted") =>
        /\ request.offered # <<>>
        /\ request.attempted # <<>>
        /\ BestEffort(request.attempted[Len(request.attempted)])

\* The selectors of download_with_yt_dlp for YouTube, in order
YoutubeProfiles == quality_levels \o <<Fallback>>

\* C20: for YouTube the profiles are attempted in the order 4K, 1440p, 1080p,
\* 720p, 480p and then the fallback; every attempt but the last gave no file,
\* and the result returned has a file exactly when the last attempt gave one.
C20_InOrder ==
    \A k \in Kinds :
        LET a == task[k].attempts
            n == Len(a)
        IN  /\ n <= Len(YoutubeProfiles)
            /\ \A i \in 1..n : a[i].profile = YoutubeProfiles[i]
            /\ \A i \in 1..(n - 1) : ~a[i].file
            /\ (task[k].pc = "done" /\ n > 0) => (task[k].result.file # "none" <=> a[n].file)

\* C20 witness: 4K and 1440p failed, 1080p gave the file that is returned.
C20_Witness ==
    \E k \in Kinds :
        /\ task[k].pc = "done"
        /\ Len(task[k].attempts) = 3
        /\ task[k].attempts[3].file
        /\ task[k].result.file # "none"

\* C21: in download_video_with_quality the API strategy runs only after the
\* package strategy gave no file, the cookie strategy only after the API
\* strategy returned without a usable file, and a strategy that gives a file
\* ends the request with it: no later strategy is started.
C21_Sequential ==
    entry = "quality" =>
        /\ task["api"].pc # "off" =>
              /\ request.pc \notin {"start", "priority1"}
              /\ "package" \in request.tried
        /\ task["cookies"].pc # "off" =>
              /\ task["api"].pc = "done"
              /\ request.pc \notin {"start", "priority1", "priority2"}
        /\ request.pc \in {"priority1", "priority2", "priority3"} => request.result = NoResult
        /\ request.result.file # "none" =>
              /\ request.pc \in {"upload", "exiting", "raising", "except", "closed"}
              /\ (request.tried = {"package"} =>
                     task["api"].pc = "off" /\ task["cookies"].pc = "off")
              /\ (request.tried = {"package", "api"} => task["cookies"].pc = "off")

\* C21 witness: packages and API gave no file and the cookie strategy's file
\* is uploaded.
C21_Witness ==
    /\ entry = "quality"
    /\ request.pc = "upload"
    /\ request.tried = {"package", "api", "cookies"}
    /\ request.result.file # "none"

\* The executors that have completed with a file
Succeeded == {k \in RaceSet : task[k].pc = "done" /\ task[k].result.file # "none"}
\* The place of an executor's strategy kind in the alphabet: API, Cookie,
\* Package
KindRank(k) == CASE k = "api" -> 1 [] k = "cookies" -> 2 [] OTHER -> 3
LexFirst(S) == CHOOSE k \in S : \A j \in S : KindRank(k) <= KindRank(j)

\* C22 as stated: when download_video returns a file, it is the file of the
\* executor whose kind comes first in the alphabet among those that have
\* succeeded by then.
C22_Original ==
    [][(entry = "race" /\ racer.pc = "racing" /\ racer'.pc = "returned"
           /\ racer'.returned.file # "none")
          => racer'.returned = task[LexFirst(Succeeded)].result]_vars

\* C23 as stated: once download_with_cookies has returned, whatever the
\* outcome, the cookies.txt it wrote is no longer in the temp directory.
C23_Original ==
    task["cookies"].pc = "done" => ~Exists(disk, CookiePath)

Transferring(t) ==
    \/ t.pc \in {"await_head", "await_stream", "await_chunk", "await_smart", "await_ultra",
                 "await_level"}
    \/ t.chunks > 0
    \/ t.file # "none"

\* C25: download_with_api returns no file when the platform has no endpoint
\* or the endpoint's answer gave no media URL (unreachable, timeout, status
\* other than 200, no JSON, no URL field), and no transfer is started unless a
\* media URL was extracted.
C25_NoUrlNoTransfer ==
    LET t == task["api"]
    IN  /\ (t.pc = "done" /\ platform \notin {"tiktok", "facebook", "twitter"}) =>
              t.result = NoResult /\ t.answer = "none"
        /\ t.answer \notin {"none", "url"} => t.pc = "done" /\ t.result = NoResult
        /\ (Transferring(t) \/ t.result.file # "none") => t.answer = "url"

\* C25 witness: an answer with a status other than 200 ended the executor
\* without a file and without a transfer.
C25_Witness ==
    /\ task["api"].pc = "done"
    /\ task["api"].answer = "status"
    /\ task["api"].result = NoResult

\* The timeouts of download and compression invocations end the attempt
\* without a result: a timed-out yt-dlp download ends the executor without a
\* file, the output of a timed-out compression level is never the result, the
\* level after it is still run, and the race still waits for every executor
\* before it returns without a file.
InvocationTimeoutsFail ==
    /\ \A k \in Kinds :
          LET t == task[k]
          IN  /\ "download" \in t.timeouts => t.pc = "done" /\ t.result = NoResult
              /\ \A i \in 1..Len(compression_levels) :
                    LevelName(i) \in t.timeouts =>
                        /\ t.result.file # AggrPath(k, compression_levels[i])
                        /\ (t.pc = "done" /\ i < Len(compression_levels)) => Len(t.calls) > i
    /\ (entry = "race" /\ racer.pc = "returned" /\ racer.returned = NoResult) =>
          racer.seen = Len(RaceKinds)

C27_Original ==
    Cardinality({r \in 1..MaxRequests : webhook[r] = "ffmpeg"}) <= max_workers

\* The callers that compress through _compress_video_smart.
SmartCallers == {"enh", "direct", "m3u8"}

\* What holds of an executor that went through _compress_video_smart: under
\* the cut-off it waits for or has made the one fast re-encode and no level of
\* the ladder; from the cut-off on it runs levels only.
SmartChoice(t) ==
    /\ t.pc = "await_ultra" => (t.fsize < SMART_CUTOFF /\ t.calls = <<>>)
    /\ t.pc = "await_level" => t.fsize >= SMART_CUTOFF
    /\ t.calls # <<>> =>
          IF t.fsize < SMART_CUTOFF THEN t.calls = <<0>>
          ELSE \A i \in 1..Len(t.calls) : t.calls[i] = compression_levels[i]

\* C28: _compress_video_smart selects by the size of its input only: under
\* 100 MB exactly one single-pass fast re-encode runs and never a level of the
\* ladder; from 100 MB on the levels of the ladder run, descending, and never
\* the single-pass re-encode.
C28_BySizeOnly ==
    [][\A k \in Kinds :
          Caller(k) \in SmartCallers =>
             /\ SmartChoice(task[k])'
             /\ (task[k].pc = "await_ultra" /\ task'[k].pc = "done")
                   => task'[k].calls = <<0>>]_vars

\* C28 witness: two executors went through _compress_video_smart and are
\* through: one with an input under the cut-off made the one fast re-encode,
\* one with an input over it ran the ladder.
C28_Witness ==
    \E k1, k2 \in Kinds :
        /\ Caller(k1) \in SmartCallers /\ Caller(k2) \in SmartCallers
        /\ task[k1].pc = "done" /\ task[k1].calls = <<0>>
        /\ task[k1].fsize < SMART_CUTOFF
        /\ task[k2].pc = "done" /\ Len(task[k2].calls) >= 2
        /\ task[k2].fsize >= SMART_CUTOFF

\* The formats of the JSON that have the quality level q
OfLevel(formats, q) ==
    {formats[i] : i \in {j \in 1..Len(formats) : formats[j].quality_level = q}}

\* C29: info['video_formats'] has at most 6 entries and at most one of a
\* quality level, no entry is taller than the one before it, and the entry
\* of a level is a format of the JSON that no format of that level is taller
\* than.
C29_Deduplicated ==
    (entry = "formats" /\ request.pc = "parsed") =>
        LET u == request.unique_video_formats
            f == request.formats
        IN  /\ Len(u) <= 6
            /\ \A i, j \in 1..Len(u) :
                  i < j => /\ u[i].quality_level # u[j].quality_level
                           /\ u[i].height >= u[j].height
            /\ \A i \in 1..Len(u) :
                  /\ u[i].quality_level \in Levels
                  /\ u[i] \in OfLevel(f, u[i].quality_level)
                  /\ \A g \in OfLevel(f, u[i].quality_level) : g.height <= u[i].height

\* C29 witness: six formats were read, among them the shorter one of two 4K
\* formats before the taller one, two of one height and one under 360p; the
\* taller 4K format is the first of the formats kept.
C29_Witness ==
    /\ entry = "formats" /\ request.pc = "parsed"
    /\ Len(request.formats) = MaxFormats
    /\ Len(request.unique_video_formats) >= 3
    /\ request.unique_video_formats[1].height = 4320
    /\ \E i, j, m, n \in 1..Len(request.formats) :
          /\ i < j /\ m # n /\ n \notin {i, j}
          /\ request.formats[i].height = 2160
          /\ request.formats[j].height = 4320
          /\ request.formats[m].height = request.formats[n].height
          /\ \E l \in 1..Len(request.formats) : request.formats[l].height < 360

\* The samples of the calls that got past the throttle, oldest first
AllSamples == [i \in 1..Len(emitted) |-> emitted[i].sample]

\* C30: speed_samples holds at most 5 samples, they are the last ones added
\* (the oldest is the one dropped when a sixth is added), and the speed in
\* the text of a call is the mean of the samples kept, as the text writes it.
C30_WindowedMean ==
    entry = "speed" =>
        LET n == Len(emitted)
        IN  /\ Len(tracker.speed_samples) <= 5
            /\ tracker.speed_samples = SubSeq(AllSamples, IF n > 5 THEN n - 4 ELSE 1, n)
            /\ n > 0 => emitted[n].speed = FormatSpeed(avg_speed(tracker.speed_samples))

\* C30 witness: a sixth sample was added after five, the first one differed
\* from the sixth, and the speed in the text of the sixth call is not the one
\* its own sample gives.
C30_Witness ==
    /\ entry = "speed"
    /\ Len(emitted) = 6
    /\ emitted[1].sample # emitted[6].sample
    /\ emitted[1].sample # emitted[2].sample
    /\ emitted[6].speed # FormatSpeed(emitted[6].sample)

\* C31 as claimed: download_video_enhanced returned: no file over
\* MAX_VIDEO_SIZE is left of the download, and a success carries a file that
\* exists and is within MAX_VIDEO_SIZE.
C31_Original ==
    (entry = "web" /\ request.pc \in {"raising", "sending", "exiting"}) =>
        /\ \A f \in GlobMedia(disk) : Size(disk, f) <= MAX_VIDEO_SIZE
        /\ request.result # NoResult =>
              /\ Exists(disk, request.result.file)
              /\ Size(disk, request.result.file) <= MAX_VIDEO_SIZE

C33_Original ==
    (entry = "web" /\ download_progress.completed
       /\ download_progress.result = "Successfully downloaded")
    => request.delivered

\* C34: a web download whose task has started gets to a terminal record:
\* completed, with a result or with an error.
C34_Terminates ==
    (entry = "web" /\ request.pc # "start")
        ~> (/\ download_progress.completed
            /\ (download_progress.result # "None" \/ download_progress.error # "None"))

\* C34 witness: the download failed, the downloader was left through the
\* exception, and the record is completed with the error.
C34_Witness ==
    /\ entry = "web"
    /\ request.pc = "closed"
    /\ request.result = NoResult
    /\ download_progress.completed
    /\ download_progress.error # "None"
    /\ download_progress.result = "None"

\* C35: of the percentages written into the record of a web download none
\* is lower than the one written before it, but for the write of the failure
\* that makes the record terminal.
C35_NonDecreasing ==
    entry = "web" =>
        LET w == download_progress.writes
        IN  \A i \in 1..(Len(w) - 1) :
               \/ w[i] <= w[i + 1]
               \/ i + 1 = Len(w) /\ download_progress.error # "None"

\* C35 witness: all stages were written, up to the completed record.
C35_Witness ==
    /\ entry = "web"
    /\ download_progress.completed
    /\ download_progress.writes = <<0, 5, 15, 25, 80, 100>>

\* C36: a chat that has a pending_url has joined_channel set, so a download
\* is started by handle_quality_selection only for a chat that passed the
\* membership check.
C36_PendingOnlyJoined ==
    \A c \in Chats :
        user_states[c].pending_url # "none"
            => (user_states[c].known /\ user_states[c].joined_channel)

\* C36 witness: one chat has joined and has a URL pending after a download
\* was delivered to it, another has a session and has not joined.
C36_Witness ==
    /\ entry = "session"
    /\ \E c, d \in Chats :
          /\ user_states[c].joined_channel
          /\ user_states[c].pending_url # "none"
          /\ user_states[c].download_count > 0
          /\ user_states[d].known
          /\ ~user_states[d].joined_channel

\* C37 as claimed: handle_quality_selection is through: pending_url is
\* removed from the session of the chat, and the downloads are counted once
\* when the file was delivered and not at all otherwise.
C37_Original ==
    (entry = "quality" /\ request.pc = "closed") =>
        /\ user_states[TheChat].pending_url = "none"
        /\ user_states[TheChat].download_count = (IF request.reported = "done" THEN 1 ELSE 0)
        /\ download_stats.total_downloads = (IF request.reported = "done" THEN 1 ELSE 0)

\* C38 as claimed: download_video_with_quality returned a file for the tier
\* "audio": the file is an mp3.
C38_Original ==
    (entry = "quality" /\ request.tier = "audio" /\ request.pc = "upload")
        => request.result.file \in {QualityMp3Path, ExtractedPath}

\* C39 as claimed: bot.py download_video returned (info, filename) and the
\* file has not been removed after the send: a file exists at filename.
C39_Original ==
    (entry = "bot" /\ request.result.file # "none" /\ request.reported # "done")
        => Exists(disk, request.result.file)

\* The platform a host belongs to, for the hosts among the pieces
HostPlatform(a) ==
    CASE a = "youtube.com" -> "youtube"
      [] a = "tiktok.com" -> "tiktok"
      [] OTHER -> "none"
\* The host of a URL string: its first piece, once lowercased and stripped
Host(u) == IF strip(lower(u)) = <<>> THEN "" ELSE Head(strip(lower(u)))

\* C40 as claimed: a call of get_platform that returned the tag of a platform
\* was made on a URL whose host belongs to that platform.
C40_Original ==
    \A i \in 1..Len(tags) :
        tags[i].tag \in {"youtube", "twitter", "facebook", "tiktok", "instagram"}
            => HostPlatform(Host(tags[i].url)) = tags[i].tag

====
